---- MODULE Spec2Model ----
(***************************************************************************)
(* ConnectionManager of src/core/websocket_manager.py as a state machine. *)
(*                                                                         *)
(* The manager runs on one asyncio event loop: a coroutine runs without   *)
(* interruption until it awaits something that really suspends.  The      *)
(* suspension points of the class are                                     *)
(*   - websocket.send_json (line 122) and ws.close (line 275): I/O;       *)
(*   - `async with self.lock` when the lock is not free (FIFO waiters);   *)
(*   - asyncio.gather (lines 178, 190): the gathered coroutines start in  *)
(*     a later iteration of the loop.                                     *)
(* _get_user_role and _get_session_user_id contain no await, so awaiting  *)
(* them never yields to the loop.  Every action below is one such         *)
(* uninterrupted run of a coroutine.                                      *)
(*                                                                         *)
(* Python lists are objects: an iterator over connections[u] or over      *)
(* session_watchers[s] keeps reading the object it started on.  A sender  *)
(* is "live" while its list is still the one stored in the dict and       *)
(* "detached" (det, with the object's final contents in lst) afterwards.  *)
(* The iteration order of the dicts themselves is abstracted (keys are    *)
(* visited in increasing order).                                          *)
(***************************************************************************)
EXTENDS Integers, Sequences, FiniteSets, TLC

\* ---- bounds ----
NUsers == 2
NSock == 2
MaxConns == 2
NSessions == 1
NTasks == 1
MaxPending == 1
MaxForeign == 1
\* the presence service: callers, the counts and the clock explored
NCallers == 2
MaxCount == 2
MaxTimeout == 1
MaxTicks == 2
\* the notify route: the rows of the notifications table explored
MaxNotes == 1

Users == 1..NUsers
Sessions == 1..NSessions
\* the calls in flight: disconnect_all (the shutdown) and NTasks sending calls
Shutdown == 0
SendTasks == 1..NTasks
\* one more send_to_user, invoked while a first one is running
Later == NTasks + 1
Tasks == {Shutdown} \cup SendTasks
\* who runs a step that belongs to no call in flight
Env == 0 - 1
\* the payload is opaque to the manager
Msgs == {"m"}
\* the payloads of two calls for one user, named in the order of the calls
M1st == "m1"
M2nd == "m2"
Roles == {"admin", "mentorado"}
\* the role argument of a step that looks no role up
MinRole == "admin"
NoUser == 0
NoSession == 0
NoWS == <<0, 0>>
\* the WebSocket objects a client of user u can hand to the manager
Sock(u) == {<<u, k>> : k \in 1..NSock}
AllSock == UNION {Sock(u) : u \in Users}

VARIABLES connections, user_sessions, session_watchers, user_roles,
          lockq, tasks, last,
          user_presence, clock, pcalls, presult, tracker,
          notifications, route

\* the fields of the ConnectionManager with the history kept for it
mvars == <<connections, user_sessions, session_watchers, user_roles, lockq, tasks, last>>
\* the user_presence table, the wall clock, the PresenceService calls in
\* flight, how the last call ended, and the outcome of the same calls run
\* one after another
pvars == <<user_presence, clock, pcalls, presult, tracker>>
\* the notifications table and the request the routes are handling
rvars == <<notifications, route>>
vars == <<connections, user_sessions, session_watchers, user_roles, lockq, tasks, last,
          user_presence, clock, pcalls, presult, tracker, notifications, route>>

\* ---- helpers ----
EmptyMap == [x \in {} |-> 0]
Range(f) == {f[x] : x \in DOMAIN f}
Without(f, k) == [x \in DOMAIN f \ {k} |-> f[x]]
With(f, k, v) == [x \in DOMAIN f \cup {k} |-> IF x = k THEN v ELSE f[x]]
Min(S) == CHOOSE x \in S : \A y \in S : x <= y

\* list.remove(x): drops the first occurrence
RECURSIVE RemoveFirst(_, _)
RemoveFirst(s, x) ==
  IF s = <<>> THEN <<>>
  ELSE IF Head(s) = x THEN Tail(s)
  ELSE <<Head(s)>> \o RemoveFirst(Tail(s), x)

RECURSIVE SumLen(_, _)
SumLen(f, S) ==
  IF S = {} THEN 0 ELSE LET k == Min(S) IN Len(f[k]) + SumLen(f, S \ {k})

\* get_connection_count()
get_connection_count(c) == SumLen(c, DOMAIN c)
\* is_user_online(u)
is_user_online(c, u) == u \in DOMAIN c
\* get_online_users()
get_online_users(c) == DOMAIN c
get_list(c, u) == IF u \in DOMAIN c THEN c[u] ELSE <<>>
\* get_session_watchers(s)
get_session_watchers(sw, s) == IF s \in DOMAIN sw THEN sw[s] ELSE <<>>

\* ---- task records ----
NoSender == [pc |-> "off", det |-> TRUE, lst |-> <<>>, idx |-> 0, cur |-> NoWS, dead |-> <<>>]
NoIter == [on |-> FALSE, det |-> TRUE, lst |-> <<>>, idx |-> 0]
NoAtt == [u \in Users |-> <<>>]

Idle == [op |-> "idle", pc |-> "idle", msg |-> "", u |-> NoUser, sid |-> NoSession,
         excl |-> NoUser, owner |-> NoUser, role |-> "", phase |-> "",
         snd |-> [u \in Users |-> NoSender], wit |-> NoIter, pend |-> {},
         closeq |-> <<>>, att |-> NoAtt, targets |-> {},
         conn0 |-> EmptyMap, sw0 |-> EmptyMap, ur0 |-> EmptyMap, us0 |-> EmptyMap,
         alone |-> TRUE, foreign |-> 0, owed |-> {}]

\* no other coroutine has run since the call started
Alone(k) == k.alone

NoLast == [op |-> "", gone |-> {}, unw |-> {}, dflt |-> {}]
\* a request of the notification routes: the caller, what the lookups of the
\* handler returned, the status of the response, the task running its
\* send_to_user (sent: the handler called it), and for a notify the id of the
\* row and the delivered field of the response
NoRoute == [kind |-> "", t |-> NoUser, caller |-> NoUser, sid |-> NoSession, target |-> NoUser,
            crole |-> "", found |-> FALSE, orole |-> "", can |-> FALSE,
            status |-> 0, sent |-> FALSE, nid |-> 0, delivered |-> FALSE]

\* the machine state handed through the handlers
Cur == [c |-> connections, us |-> user_sessions, sw |-> session_watchers,
        ur |-> user_roles, tk |-> tasks, lq |-> lockq]

LockEntry(kind, t, u, ws, sid) ==
  [kind |-> kind, t |-> t, u |-> u, ws |-> ws, sid |-> sid]

SetSnd(M, t, u, s) == [M EXCEPT !.tk[t].snd[u] = s]

\* object identity of the lists: senders iterating a list that has just left
\* the dict keep the object, whose final contents are gonec[u] / gonew[s]
DetachConn(tk, gonec) ==
  [t \in DOMAIN tk |->
     [tk[t] EXCEPT !.snd = [u \in Users |->
        IF u \in DOMAIN gonec /\ tk[t].snd[u].pc = "send" /\ ~tk[t].snd[u].det
        THEN [tk[t].snd[u] EXCEPT !.det = TRUE, !.lst = gonec[u]]
        ELSE tk[t].snd[u]]]]

DetachWatch(tk, gonew) ==
  [t \in DOMAIN tk |->
     IF tk[t].wit.on /\ ~tk[t].wit.det /\ tk[t].sid \in DOMAIN gonew
     THEN [tk[t] EXCEPT !.wit.det = TRUE, !.wit.lst = gonew[tk[t].sid]]
     ELSE tk[t]]

\* ---- the lookups, lines 288-333 ----
\* what core.auth.get_effective_role does: it returns a role or raises
RoleLookups == Roles \cup {"raise"}
\* the role cached for a user whose lookup raises
get_user_role_Admin(res) == IF res = "raise" THEN "admin" ELSE res

\* _get_user_role, lines 298-303
get_user_role(res) == IF res = "raise" THEN "mentorado" ELSE res

\* what the store does for the owner of a session: a row, no row, no
\* connection (line 318), or an exception
SessionLookups == {"row", "norow", "noconn", "raise"}
\* the user_id column of the row fetched at line 326, when there is one
RowsOf(res) == IF res = "row" THEN Users ELSE {NoUser}
\* _get_session_user_id, lines 315-333: the user id of the row, else None
get_session_user_id(res, uid) == IF res = "row" THEN uid ELSE NoUser

\* ---- connect, lines 50-65 (the body under the lock) ----
\* the role is cached again at every connect
ConnectCS_Refetch(M, u, ws, sid, role) ==
  LET first == u \notin DOMAIN M.c
      c1 == IF first THEN With(M.c, u, <<>>) ELSE M.c
      c2 == [c1 EXCEPT ![u] = Append(@, ws)]
      us1 == IF sid # NoSession /\ u \notin DOMAIN M.us THEN With(M.us, u, EmptyMap) ELSE M.us
      us2 == IF sid # NoSession THEN [us1 EXCEPT ![u] = With(@, sid, ws)] ELSE us1
  IN [M EXCEPT !.c = c2, !.ur = With(M.ur, u, role), !.us = us2]

\* the entry of a new user is made and its role is not cached
ConnectCS_NoRole(M, u, ws, sid, role) ==
  LET first == u \notin DOMAIN M.c
      c1 == IF first THEN With(M.c, u, <<>>) ELSE M.c
      c2 == [c1 EXCEPT ![u] = Append(@, ws)]
      us1 == IF sid # NoSession /\ u \notin DOMAIN M.us THEN With(M.us, u, EmptyMap) ELSE M.us
      us2 == IF sid # NoSession THEN [us1 EXCEPT ![u] = With(@, sid, ws)] ELSE us1
  IN [M EXCEPT !.c = c2, !.us = us2]

ConnectCS(M, u, ws, sid, role) ==
  LET first == u \notin DOMAIN M.c
      c1 == IF first THEN With(M.c, u, <<>>) ELSE M.c
      ur1 == IF first THEN With(M.ur, u, role) ELSE M.ur
      c2 == [c1 EXCEPT ![u] = Append(@, ws)]
      us1 == IF sid # NoSession /\ u \notin DOMAIN M.us THEN With(M.us, u, EmptyMap) ELSE M.us
      us2 == IF sid # NoSession THEN [us1 EXCEPT ![u] = With(@, sid, ws)] ELSE us1
  IN [M EXCEPT !.c = c2, !.ur = ur1, !.us = us2]

\* ---- disconnect, lines 75-105 (the body under the lock) ----
\* the entry of a user is kept when its last socket goes
DisconnectConns_LeaveEmpty(c, u, ws) ==
  IF u \in DOMAIN c /\ ws \in Range(c[u])
  THEN [c EXCEPT ![u] = RemoveFirst(c[u], ws)]
  ELSE c

\* lines 76-89
DisconnectConns(c, u, ws) ==
  IF u \in DOMAIN c /\ ws \in Range(c[u])
  THEN LET l == RemoveFirst(c[u], ws)
       IN IF Len(l) = 0 THEN Without(c, u) ELSE [c EXCEPT ![u] = l]
  ELSE c

\* the cached role is never dropped
DisconnectRoles_Keep(c, ur, u, ws) == ur

\* lines 82-85
DisconnectRoles(c, ur, u, ws) ==
  IF u \in DOMAIN c /\ ws \in Range(c[u]) /\ Len(RemoveFirst(c[u], ws)) = 0 /\ u \in DOMAIN ur
  THEN Without(ur, u) ELSE ur

\* the session mappings are left alone
DisconnectSessions_Keep(us, u, ws) == us

\* lines 92-97
DisconnectSessions(us, u, ws) ==
  IF u \in DOMAIN us
  THEN LET keep == {sid \in DOMAIN us[u] : us[u][sid] # ws}
       IN IF keep = {} THEN Without(us, u) ELSE [us EXCEPT ![u] = [sid \in keep |-> us[u][sid]]]
  ELSE us

\* an emptied watcher list is kept
DisconnectWatchers_LeaveEmpty(sw, u) == [s \in DOMAIN sw |-> RemoveFirst(sw[s], u)]

\* the watcher lists are left alone
DisconnectWatchers_None(sw, u) == sw

\* lines 100-105: every call strips u from every watcher list
DisconnectWatchers(sw, u) ==
  LET keep == {s \in DOMAIN sw : ~(u \in Range(sw[s]) /\ RemoveFirst(sw[s], u) = <<>>)}
  IN [s \in keep |-> RemoveFirst(sw[s], u)]

DisconnectCS(M, u, ws) ==
  LET c2 == DisconnectConns(M.c, u, ws)
      sw2 == DisconnectWatchers(M.sw, u)
      gonec == [x \in DOMAIN M.c \ DOMAIN c2 |-> <<>>]
      gonew == [s \in DOMAIN M.sw \ DOMAIN sw2 |-> <<>>]
  IN [M EXCEPT !.c = c2,
               !.ur = DisconnectRoles(M.c, M.ur, u, ws),
               !.us = DisconnectSessions(M.us, u, ws),
               !.sw = sw2,
               !.tk = DetachWatch(DetachConn(M.tk, gonec), gonew)]

\* a disconnect without the handler of lines 88-89
DisconnectCatches_None == {}
\* the exceptions the handler of lines 88-89 catches
DisconnectCatches == {"ValueError"}

\* what disconnect raises to its caller: list.remove (line 78) raises
\* ValueError for an absent element, every del of lines 83-104 is guarded
DisconnectRaises(c, u, ws) ==
  (IF u \in DOMAIN c /\ ws \notin Range(c[u]) THEN {"ValueError"} ELSE {}) \ DisconnectCatches

\* the four maps of the registry
Reg(M) == <<M.c, M.us, M.ur, M.sw>>

\* ---- add_session_watcher, lines 200-205 ----
\* the admin is appended without the membership test of line 203
AddWatcherCS_Always(M, s, a) ==
  LET sw1 == IF s \notin DOMAIN M.sw THEN With(M.sw, s, <<>>) ELSE M.sw
  IN [M EXCEPT !.sw = [sw1 EXCEPT ![s] = Append(@, a)]]

AddWatcherCS(M, s, a) ==
  LET sw1 == IF s \notin DOMAIN M.sw THEN With(M.sw, s, <<>>) ELSE M.sw
  IN [M EXCEPT !.sw = IF a \notin Range(sw1[s]) THEN [sw1 EXCEPT ![s] = Append(@, a)] ELSE sw1]

\* ---- remove_session_watcher, lines 215-221 ----
RemoveWatcherCS(M, s, a) ==
  IF s \in DOMAIN M.sw /\ a \in Range(M.sw[s])
  THEN LET l == RemoveFirst(M.sw[s], a)
       IN IF l = <<>>
          THEN [M EXCEPT !.sw = Without(M.sw, s),
                         !.tk = DetachWatch(M.tk, [x \in {s} |-> <<>>])]
          ELSE [M EXCEPT !.sw[s] = l]
  ELSE M

\* ---- send_to_user, lines 115-129 ----
Finish(M, t) ==
  [M EXCEPT !.tk[t].pc = "done", !.tk[t].wit = NoIter, !.tk[t].phase = "",
            !.tk[t].pend = {}, !.tk[t].closeq = <<>>]

RECURSIVE StartSender(_, _, _), FetchNext(_, _, _), Reap(_, _, _), Cont(_, _, _),
          WatchNext(_, _)

\* a user that is not connected gets an empty entry
StartSender_Register(M, t, u) ==
  IF u \notin DOMAIN M.c
  THEN Cont([M EXCEPT !.c = With(M.c, u, <<>>)], t, u)
  ELSE FetchNext(SetSnd(M, t, u, [NoSender EXCEPT !.pc = "send", !.det = FALSE]), t, u)

\* lines 115-120: the membership test and the iterator over the user's list
StartSender(M, t, u) ==
  IF u \notin DOMAIN M.c
  THEN Cont(M, t, u)
  ELSE FetchNext(SetSnd(M, t, u, [NoSender EXCEPT !.pc = "send", !.det = FALSE]), t, u)

\* line 120: next() of the list iterator, then line 122 suspends in send_json
FetchNext(M, t, u) ==
  LET s == M.tk[t].snd[u]
      l == IF s.det THEN s.lst ELSE IF u \in DOMAIN M.c THEN M.c[u] ELSE <<>>
  IN IF s.idx < Len(l)
     THEN SetSnd(M, t, u, [s EXCEPT !.cur = l[s.idx + 1], !.idx = s.idx + 1])
     ELSE Reap(SetSnd(M, t, u, [s EXCEPT !.pc = "reap", !.det = TRUE, !.lst = <<>>,
                                         !.idx = 0, !.cur = NoWS]), t, u)

\* lines 128-129: disconnect each dead socket; waits only when the lock is taken
Reap(M, t, u) ==
  LET s == M.tk[t].snd[u]
  IN IF s.dead = <<>>
     THEN Cont(SetSnd(M, t, u, NoSender), t, u)
     ELSE IF M.lq = <<>>
     THEN LET M1 == DisconnectCS(M, u, Head(s.dead))
          IN Reap(SetSnd(M1, t, u, [M1.tk[t].snd[u] EXCEPT !.dead = Tail(@)]), t, u)
     ELSE [M EXCEPT !.lq = Append(@, LockEntry("reap", t, u, Head(s.dead), NoSession))]

\* lines 156-159: next() of the iterator over the session's watcher list
WatchNext(M, t) ==
  LET k == M.tk[t]
      w == k.wit
      l == IF w.det THEN w.lst ELSE IF k.sid \in DOMAIN M.sw THEN M.sw[k.sid] ELSE <<>>
  IN IF w.idx < Len(l)
     THEN LET M1 == [M EXCEPT !.tk[t].wit.idx = w.idx + 1]
          IN IF l[w.idx + 1] # k.excl
             THEN StartSender(M1, t, l[w.idx + 1])
             ELSE WatchNext(M1, t)
     ELSE Finish(M, t)

\* line 156
BeginWatchers(M, t) ==
  IF M.tk[t].sid \in DOMAIN M.sw
  THEN WatchNext([M EXCEPT !.tk[t].phase = "watchers",
                           !.tk[t].wit = [on |-> TRUE, det |-> FALSE, lst |-> <<>>, idx |-> 0]], t)
  ELSE Finish(M, t)

\* what the caller of send_to_user does when it returns
Cont(M, t, u) ==
  LET k == M.tk[t]
  IN CASE k.op = "send_to_user" -> Finish(M, t)
       [] k.op = "send_to_session" ->
            IF k.phase = "owner" THEN BeginWatchers(M, t) ELSE WatchNext(M, t)
       [] OTHER ->
            IF k.pend = {} /\ \A x \in Users : k.snd[x].pc = "off" THEN Finish(M, t) ELSE M

\* every socket sent to is recorded as dead
SendResult_ReapAll(M, t, u, ok) ==
  LET s == M.tk[t].snd[u]
      M1 == [M EXCEPT !.tk[t].att[u] = IF Alone(M.tk[t]) THEN Append(@, <<s.cur, ok>>) ELSE @,
                      !.tk[t].owed = @ \ {s.cur},
                      !.tk[t].snd[u].dead = Append(@, s.cur)]
  IN FetchNext(M1, t, u)

\* a failed send is not recorded as dead
SendResult_NoDead(M, t, u, ok) ==
  LET s == M.tk[t].snd[u]
      M1 == [M EXCEPT !.tk[t].att[u] = IF Alone(M.tk[t]) THEN Append(@, <<s.cur, ok>>) ELSE @,
                      !.tk[t].owed = @ \ {s.cur}]
  IN FetchNext(M1, t, u)

\* a send that raises ends the whole call
SendResult_AbortAll(M, t, u, ok) ==
  LET s == M.tk[t].snd[u]
      M1 == [M EXCEPT !.tk[t].att[u] = IF Alone(M.tk[t]) THEN Append(@, <<s.cur, ok>>) ELSE @,
                      !.tk[t].owed = @ \ {s.cur}]
  IN IF ok THEN FetchNext(M1, t, u)
     ELSE Finish([M1 EXCEPT !.tk[t].snd = [x \in Users |-> NoSender], !.tk[t].pend = {}], t)

\* lines 121-125: the send returns or raises, then the loop goes on
SendResult(M, t, u, ok) ==
  LET s == M.tk[t].snd[u]
      M1 == [M EXCEPT !.tk[t].att[u] = IF Alone(M.tk[t]) THEN Append(@, <<s.cur, ok>>) ELSE @,
                      !.tk[t].owed = @ \ {s.cur},
                      !.tk[t].snd[u].dead = IF ok THEN @ ELSE Append(@, s.cur)]
  IN FetchNext(M1, t, u)

\* ---- send_to_session, lines 146-159 ----
\* lines 147-159: nobody when the owner is unknown, else the owner and the
\* watchers of the session, but for the excluded user
SessionTargets(sw, s, x, owner) ==
  IF owner = NoUser THEN {}
  ELSE ({owner} \cup Range(get_session_watchers(sw, s))) \ {x}

\* an unknown owner is skipped and the watchers are still sent to
SessionStart_WatchersAnyway(M, t) ==
  LET k == M.tk[t]
  IN IF k.owner = NoUser THEN BeginWatchers(M, t)
     ELSE IF k.owner # k.excl THEN StartSender(M, t, k.owner)
     ELSE BeginWatchers(M, t)

\* lines 146-153
SessionStart(M, t) ==
  LET k == M.tk[t]
  IN IF k.owner = NoUser THEN Finish(M, t)
     ELSE IF k.owner # k.excl THEN StartSender(M, t, k.owner)
     ELSE BeginWatchers(M, t)

\* ---- broadcast_to_role, lines 169-172; broadcast_all, line 189 ----
\* the role is not compared
RoleTargets_Any(ur, role) == DOMAIN ur

RoleTargets(ur, role) == {u \in DOMAIN ur : ur[u] = role \/ role = "all"}
AllTargets(c) == DOMAIN c

\* lines 177-178 / 189-190: the gathered send_to_user coroutines start one after
\* the other, each running up to its first send
RECURSIVE LaunchAll(_, _)
LaunchAll(M, t) ==
  LET k == M.tk[t]
  IN IF k.pend = {}
     THEN IF \A x \in Users : k.snd[x].pc = "off" THEN Finish(M, t) ELSE M
     ELSE LET u == Min(k.pend)
          IN LaunchAll(StartSender([M EXCEPT !.tk[t].pend = @ \ {u}], t, u), t)

\* ---- disconnect_all, lines 270-284 ----
\* the close code of line 275
ShutdownCode == 1001

RECURSIVE Flatten(_, _)
Flatten(c, S) ==
  IF S = {} THEN <<>> ELSE LET u == Min(S) IN c[u] \o Flatten(c, S \ {u})

\* session_watchers is not cleared
DAClear_KeepWatchers(M, t) ==
  Finish([M EXCEPT !.c = EmptyMap, !.us = EmptyMap, !.ur = EmptyMap,
                   !.tk = DetachConn(M.tk, M.c),
                   !.lq = Tail(@)], t)

\* the lock is not released
DAClear_KeepLock(M, t) ==
  Finish([M EXCEPT !.c = EmptyMap, !.us = EmptyMap, !.sw = EmptyMap, !.ur = EmptyMap,
                   !.tk = DetachWatch(DetachConn(M.tk, M.c), M.sw)], t)

\* lines 279-282, and the release of the lock
DAClear(M, t) ==
  Finish([M EXCEPT !.c = EmptyMap, !.us = EmptyMap, !.sw = EmptyMap, !.ur = EmptyMap,
                   !.tk = DetachWatch(DetachConn(M.tk, M.c), M.sw),
                   !.lq = Tail(@)], t)

\* lines 271-275, entered with the lock held
DAEnter(M, t) ==
  LET q == Flatten(M.c, DOMAIN M.c)
  IN IF q = <<>> THEN DAClear(M, t)
     ELSE [M EXCEPT !.tk[t].pc = "closing", !.tk[t].closeq = q]

\* a close that raises ends the loop
CloseResult_StopOnError(M, t, ok) ==
  LET k == M.tk[t]
      ws == Head(k.closeq)
      M1 == [M EXCEPT !.tk[t].att[ws[1]] = IF Alone(k) THEN Append(@, <<ws, ok, ShutdownCode>>) ELSE @,
                      !.tk[t].closeq = Tail(@)]
  IN IF Tail(k.closeq) = <<>> \/ ~ok THEN DAClear(M1, t) ELSE M1

\* lines 273-277: a close returns or raises, the loop goes on
CloseResult(M, t, ok) ==
  LET k == M.tk[t]
      ws == Head(k.closeq)
      M1 == [M EXCEPT !.tk[t].att[ws[1]] = IF Alone(k) THEN Append(@, <<ws, ok, ShutdownCode>>) ELSE @,
                      !.tk[t].closeq = Tail(@)]
  IN IF Tail(k.closeq) = <<>> THEN DAClear(M1, t) ELSE M1

\* ---- bookkeeping of every step ----
Registered(c) == UNION {Range(c[u]) : u \in DOMAIN c}
WatchPairs(sw) == UNION {{<<s, b>> : b \in Range(sw[s])} : s \in DOMAIN sw}
\* History kept for the properties.  The record of a finished call stays for
\* one step.  A call is alone until another coroutine runs; the state it
\* started from (conn0, sw0, ur0, and us0 for a send_to_user) and the log of its
\* sends and closes (att) are kept while it is alone.  foreign counts the calls others made since the call
\* started.  owed keeps the sockets of the call's target users that were not
\* sent to yet: for a send_to_user or a send_to_session those that have been
\* registered ever since the call started, for a broadcast those of the users
\* from whose list nothing has been removed since.
NoneRemoved(c0, c1, u) ==
  /\ u \in DOMAIN c0 /\ u \in DOMAIN c1
  /\ Len(c1[u]) >= Len(c0[u])
  /\ SubSeq(c1[u], 1, Len(c0[u])) = c0[u]
SocketsOf(c, S) == UNION {Range(get_list(c, u)) : u \in S}
Owed(k, c) ==
  IF k.op \in {"broadcast_to_role", "broadcast_all"}
  THEN {ws \in k.owed : NoneRemoved(connections, c, ws[1])}
  ELSE k.owed \cap Registered(c)

Track(tk, actor, isCall, c) ==
  [t \in DOMAIN tk |->
     IF tk[t].pc = "idle" THEN tk[t]
     ELSE IF t = actor THEN [tk[t] EXCEPT !.owed = Owed(tk[t], c)]
     ELSE IF tk[t].pc = "done" THEN Idle
     ELSE [tk[t] EXCEPT !.alone = FALSE, !.foreign = IF isCall THEN @ + 1 ELSE @,
                        !.conn0 = EmptyMap, !.sw0 = EmptyMap,
                        !.ur0 = EmptyMap, !.us0 = EmptyMap, !.att = NoAtt,
                        !.owed = Owed(tk[t], c)]]

\* at most MaxForeign calls of others are explored during one call
Undisturbed(actor) ==
  \A t \in DOMAIN tasks \ {actor} : tasks[t].pc \in {"idle", "done"} \/ tasks[t].foreign < MaxForeign

\* last names the handler of the latest step that took a user out of
\* connections (gone) or a watcher out of a list (unw)
CommitM(M, actor, isCall, lst) ==
  /\ isCall => Undisturbed(actor)
  /\ connections' = M.c
  /\ user_sessions' = M.us
  /\ session_watchers' = M.sw
  /\ user_roles' = M.ur
  /\ lockq' = M.lq
  /\ tasks' = Track(M.tk, actor, isCall, M.c)
  /\ UNCHANGED pvars
  /\ LET gone == DOMAIN connections \ DOMAIN M.c
         unw == WatchPairs(session_watchers) \ WatchPairs(M.sw)
     IN last' = IF gone = {} /\ unw = {} /\ lst.dflt = {} THEN NoLast
                ELSE [lst EXCEPT !.gone = gone, !.unw = unw]

\* a step of the manager outside the routes: the request of a route stays
\* while the send_to_user it called is running or has just returned
Commit(M, actor, isCall, lst) ==
  /\ CommitM(M, actor, isCall, lst)
  /\ notifications' = notifications
  /\ route' = IF route.sent /\ ~(isCall /\ actor = route.t) /\ tasks'[route.t].pc # "idle"
              THEN route ELSE NoRoute

NewTask(op, m) ==
  [Idle EXCEPT !.op = op, !.pc = "run", !.msg = m,
               !.conn0 = connections, !.sw0 = session_watchers, !.ur0 = user_roles,
               !.us0 = IF op = "send_to_user" THEN user_sessions ELSE EmptyMap]

Op(op, u, ws, s) == [NoLast EXCEPT !.op = op]
\* a connect that runs its body: line 55 awaits _get_user_role for a user that
\* is not yet a key of connections; dflt holds the websocket of a connect whose
\* lookup fell back (line 303)
ConnectOp(ws, res) ==
  [NoLast EXCEPT !.op = "connect",
                 !.dflt = IF res = "raise" /\ ws[1] \notin DOMAIN connections THEN {ws} ELSE {}]

Free(t) == tasks[t].pc \in {"idle", "done"}

NumPending == Cardinality({i \in 1..Len(lockq) : lockq[i].kind \in {"connect", "disconnect"}})
NumPendingConnects == Cardinality({i \in 1..Len(lockq) : lockq[i].kind = "connect"})

\* ---- the calls ----
\* connect enters its body without taking the lock
Connect_NoLock(u, ws, sid, res) ==
  /\ get_connection_count(connections) + NumPendingConnects < MaxConns
  /\ res = MinRole \/ u \notin DOMAIN connections
  /\ Commit(ConnectCS(Cur, u, ws, sid, get_user_role(res)), Env, TRUE, ConnectOp(ws, res))

\* connect(user_id, websocket, session_id), line 50 onwards
Connect(u, ws, sid, res) ==
  /\ get_connection_count(connections) + NumPendingConnects < MaxConns
  /\ res = MinRole \/ (lockq = <<>> /\ u \notin DOMAIN connections)
  /\ IF lockq = <<>>
     THEN Commit(ConnectCS(Cur, u, ws, sid, get_user_role(res)), Env, TRUE, ConnectOp(ws, res))
     ELSE /\ NumPending < MaxPending
          /\ Commit([Cur EXCEPT !.lq = Append(@, LockEntry("connect", Env, u, ws, sid))],
                    Env, TRUE, Op("connect", u, ws, sid))

\* disconnect(user_id, websocket), line 75 onwards
Disconnect(u, ws) ==
  IF lockq = <<>>
  THEN Commit(DisconnectCS(Cur, u, ws), Env, TRUE, Op("disconnect", u, ws, NoSession))
  ELSE /\ NumPending < MaxPending
       /\ Commit([Cur EXCEPT !.lq = Append(@, LockEntry("disconnect", Env, u, ws, NoSession))],
                 Env, TRUE, Op("disconnect", u, ws, NoSession))

\* a waiting connect / disconnect gets the lock
GrantConnect(res) ==
  /\ lockq # <<>> /\ Head(lockq).kind = "connect"
  /\ res = MinRole \/ Head(lockq).u \notin DOMAIN connections
  /\ LET e == Head(lockq)
     IN Commit(ConnectCS([Cur EXCEPT !.lq = Tail(@)], e.u, e.ws, e.sid, get_user_role(res)),
               Env, FALSE, ConnectOp(e.ws, res))

GrantDisconnect ==
  /\ lockq # <<>> /\ Head(lockq).kind = "disconnect"
  /\ LET e == Head(lockq)
     IN Commit(DisconnectCS([Cur EXCEPT !.lq = Tail(@)], e.u, e.ws), Env, FALSE,
               Op("disconnect", e.u, e.ws, NoSession))

add_session_watcher(s, a) ==
  /\ s \in Sessions
  /\ Commit(AddWatcherCS(Cur, s, a), Env, TRUE, Op("add_session_watcher", a, NoWS, s))

remove_session_watcher(s, a) ==
  /\ s \in Sessions
  /\ Commit(RemoveWatcherCS(Cur, s, a), Env, TRUE, Op("remove_session_watcher", a, NoWS, s))

send_to_user(t, u, m) ==
  /\ Free(t)
  /\ LET M0 == [Cur EXCEPT !.tk[t] = [NewTask("send_to_user", m) EXCEPT
                                        !.u = u,
                                        !.owed = Range(get_list(connections, u))]]
     IN Commit(StartSender(M0, t, u), t, TRUE, Op("send_to_user", u, NoWS, NoSession))

\* owner is what _get_session_user_id returns (lines 305-333): a user id or None
send_to_session(t, s, m, x, owner) ==
  /\ Free(t)
  /\ LET M0 == [Cur EXCEPT !.tk[t] = [NewTask("send_to_session", m) EXCEPT
                                        !.sid = s, !.excl = x, !.owner = owner,
                                        !.phase = "owner",
                                        !.owed = SocketsOf(connections, SessionTargets(session_watchers, s, x, owner))]]
     IN Commit(SessionStart(M0, t), t, TRUE, Op("send_to_session", owner, NoWS, s))

\* lines 169-178: the targets are chosen and the coroutines handed to gather
RoleStart(t, role, m) ==
  LET tg == RoleTargets(user_roles, role)
      M0 == [Cur EXCEPT !.tk[t] = [NewTask("broadcast_to_role", m) EXCEPT
                                     !.role = role, !.pend = tg, !.targets = tg,
                                     !.pc = "launch",
                                     !.owed = SocketsOf(connections, tg)]]
  IN IF tg = {} THEN Finish(M0, t) ELSE M0

broadcast_to_role(t, role, m) ==
  /\ Free(t)
  /\ Commit(RoleStart(t, role, m), t, TRUE, Op("broadcast_to_role", NoUser, NoWS, NoSession))

\* lines 189-190
AllStart(t, m) ==
  LET tg == AllTargets(connections)
      M0 == [Cur EXCEPT !.tk[t] = [NewTask("broadcast_all", m) EXCEPT
                                     !.role = "all", !.pend = tg, !.targets = tg,
                                     !.pc = "launch",
                                     !.owed = SocketsOf(connections, tg)]]
  IN IF tg = {} THEN Finish(M0, t) ELSE M0

broadcast_all(t, m) ==
  /\ Free(t)
  /\ Commit(AllStart(t, m), t, TRUE, Op("broadcast_all", NoUser, NoWS, NoSession))

\* the gathered coroutines start
Launch(t) ==
  /\ tasks[t].pc = "launch"
  /\ Commit(LaunchAll([Cur EXCEPT !.tk[t].pc = "run"], t), t, FALSE,
            Op("send_to_user", NoUser, NoWS, NoSession))

\* a send_json returns (ok) or raises
SendDone(t, u, ok) ==
  /\ tasks[t].snd[u].pc = "send"
  /\ Commit(SendResult(Cur, t, u, ok), t, FALSE, Op("send_to_user", u, tasks[t].snd[u].cur, NoSession))

\* a reaping disconnect that had to wait gets the lock
GrantReap ==
  /\ lockq # <<>> /\ Head(lockq).kind = "reap"
  /\ LET e == Head(lockq)
         M1 == DisconnectCS([Cur EXCEPT !.lq = Tail(@)], e.u, e.ws)
         M2 == SetSnd(M1, e.t, e.u, [M1.tk[e.t].snd[e.u] EXCEPT !.dead = Tail(@)])
     IN Commit(Reap(M2, e.t, e.u), e.t, FALSE, Op("send_to_user", e.u, e.ws, NoSession))

disconnect_all(t) ==
  /\ Free(t)
  /\ LET e == LockEntry("disconnect_all", t, NoUser, NoWS, NoSession)
         M0 == [Cur EXCEPT !.tk[t] = NewTask("disconnect_all", ""), !.lq = Append(@, e)]
     IN Commit(IF lockq = <<>> THEN DAEnter(M0, t) ELSE [M0 EXCEPT !.tk[t].pc = "lockwait"],
               t, TRUE, Op("disconnect_all", NoUser, NoWS, NoSession))

GrantDisconnectAll ==
  /\ lockq # <<>> /\ Head(lockq).kind = "disconnect_all"
  /\ tasks[Head(lockq).t].pc = "lockwait"
  /\ Commit(DAEnter(Cur, Head(lockq).t), Head(lockq).t, FALSE,
            Op("disconnect_all", NoUser, NoWS, NoSession))

\* a close returns (ok) or raises
CloseDone(t, ok) ==
  /\ tasks[t].pc = "closing"
  /\ Commit(CloseResult(Cur, t, ok), t, FALSE, Op("disconnect_all", NoUser, NoWS, NoSession))

\* ==== PresenceService, src/core/presence_service.py ====
\* A call opens its own connection and reads the clock (lines 35-41 and
\* 184-191), then runs one SQL statement and commits (lines 46-66 and
\* 193-202).  Within one event loop a call runs uninterrupted; the table is
\* shared by every process that uses the store, so the calls of different
\* callers may overlap between the two steps.  The ConnectionManager never
\* calls the service.  The column connected_at, written by the INSERT only and
\* read by none of the statements below, is left out.
PCallers == 1..NCallers
\* timeout_minutes: any int, 0 for a cutoff of now
Timeouts == 0..MaxTimeout

\* a datetime: <<minutes, microseconds>>
StartTime == <<MaxTimeout, 0>>
NoTime == <<0, 0>>
TimeLess(a, b) == a[1] < b[1] \/ (a[1] = b[1] /\ a[2] < b[2])
\* datetime.now() - timedelta(minutes=m), line 191
MinusMinutes(t, m) == <<t[1] - m, t[2]>>
\* datetime.isoformat() as ASCII codes: zero-padded digits, and the fraction
\* only when the microseconds are not 0
Iso(t) ==
  <<48 + (t[1] \div 10), 48 + (t[1] % 10)>> \o (IF t[2] = 0 THEN <<>> ELSE <<46, 48 + t[2]>>)
ParseIso(s) ==
  <<(s[1] - 48) * 10 + (s[2] - 48), IF Len(s) > 2 THEN s[4] - 48 ELSE 0>>
\* SQLite compares TEXT bytewise, a proper prefix being the smaller
RECURSIVE TextLess(_, _)
TextLess(a, b) ==
  IF a = <<>> THEN b # <<>>
  ELSE IF b = <<>> THEN FALSE
  ELSE IF Head(a) # Head(b) THEN Head(a) < Head(b)
  ELSE TextLess(Tail(a), Tail(b))

Row(online, seen, count) ==
  [is_online |-> online, last_seen |-> seen, connection_count |-> count]
\* the SQL scalar MAX
MAX(a, b) == IF a >= b THEN a ELSE b

UpsertConnect_Replace(tbl, u, now) ==
  IF u \notin DOMAIN tbl
  THEN With(tbl, u, Row(1, now, 1))
  ELSE [tbl EXCEPT ![u] = Row(1, now, 1)]

\* lines 46-53: INSERT ... ON CONFLICT(user_id) DO UPDATE
UpsertConnect(tbl, u, now) ==
  IF u \notin DOMAIN tbl
  THEN With(tbl, u, Row(1, now, 1))
  ELSE [tbl EXCEPT ![u] = Row(1, now, tbl[u].connection_count + 1)]

UpdateDisconnect_OnlineFromOld(tbl, u, now) ==
  IF u \notin DOMAIN tbl
  THEN tbl
  ELSE [tbl EXCEPT ![u] = Row(IF tbl[u].connection_count <= 0 THEN 0 ELSE 1,
                              now,
                              MAX(0, tbl[u].connection_count - 1))]

UpdateDisconnect_Reset(tbl, u, now) ==
  IF u \notin DOMAIN tbl
  THEN tbl
  ELSE [tbl EXCEPT ![u] = Row(0, now, 0)]

\* lines 56-62: every right-hand side of the SET reads the row as it was
UpdateDisconnect(tbl, u, now) ==
  IF u \notin DOMAIN tbl
  THEN tbl
  ELSE [tbl EXCEPT ![u] = Row(IF tbl[u].connection_count - 1 <= 0 THEN 0 ELSE 1,
                              now,
                              MAX(0, tbl[u].connection_count - 1))]

StaleRows_AllOnline(tbl, cutoff) ==
  {u \in DOMAIN tbl : tbl[u].is_online = 1}

\* lines 193-197
StaleRows(tbl, cutoff) ==
  {u \in DOMAIN tbl : TextLess(tbl[u].last_seen, cutoff) /\ tbl[u].is_online = 1}
SweepStale(tbl, cutoff) ==
  [u \in DOMAIN tbl |->
     IF u \in StaleRows(tbl, cutoff)
     THEN [tbl[u] EXCEPT !.is_online = 0, !.connection_count = 0]
     ELSE tbl[u]]

\* the same calls run one after another, in the order of their statements,
\* on a plain record per user: a connect adds a connection, a disconnect takes
\* one off while there is one, a sweep drops those of the users last seen
\* before the cutoff; times are datetimes, not text
TrackConnect(tr, u, at) ==
  IF u \notin DOMAIN tr
  THEN With(tr, u, [online |-> TRUE, count |-> 1, seen |-> at])
  ELSE [tr EXCEPT ![u] = [online |-> TRUE, count |-> tr[u].count + 1, seen |-> at]]
TrackDisconnect(tr, u, at) ==
  IF u \notin DOMAIN tr
  THEN tr
  ELSE LET n == IF tr[u].count > 0 THEN tr[u].count - 1 ELSE 0
       IN [tr EXCEPT ![u] = [online |-> n > 0, count |-> n, seen |-> at]]
TrackSweep(tr, cutoff) ==
  [u \in DOMAIN tr |->
     IF tr[u].online /\ TimeLess(tr[u].seen, cutoff)
     THEN [tr[u] EXCEPT !.online = FALSE, !.count = 0]
     ELSE tr[u]]

\* a call: its position, its arguments and the clock it read
PIdle == [pc |-> "idle", op |-> "", u |-> NoUser, at |-> NoTime]
\* how the last call ended: the call, its outcome, the rowcount of a sweep,
\* and the count its user had before the statement (-1: no row)
NoResult == [op |-> "", u |-> NoUser, res |-> "", rows |-> 0, was |-> 0]
CountOf(tbl, u) == IF u \in DOMAIN tbl THEN tbl[u].connection_count ELSE -1
\* the calls that will still add to the count of u
PendingConnects(u) ==
  Cardinality({p \in PCallers : pcalls[p].pc = "exec" /\ pcalls[p].op = "connect"
                                 /\ pcalls[p].u = u})

\* update_presence(user_id, is_online), lines 35-41; conn is what
\* get_db_connection returned
update_presence(p, u, is_online, conn) ==
  /\ pcalls[p].pc = "idle"
  /\ is_online =>
       (IF u \in DOMAIN user_presence THEN user_presence[u].connection_count ELSE 0)
         + PendingConnects(u) < MaxCount
  /\ LET op == IF is_online THEN "connect" ELSE "disconnect"
     IN IF conn
        THEN /\ pcalls' = [pcalls EXCEPT ![p] = [pc |-> "exec", op |-> op, u |-> u, at |-> clock]]
             /\ UNCHANGED presult
        ELSE /\ presult' = [NoResult EXCEPT !.res = "noconn"]
             /\ UNCHANGED pcalls
  /\ UNCHANGED <<user_presence, clock, tracker>>
  /\ UNCHANGED <<mvars, rvars>>

\* cleanup_stale_presence(timeout_minutes), lines 184-191
cleanup_stale_presence(p, tmo, conn) ==
  /\ pcalls[p].pc = "idle"
  /\ IF conn
     THEN /\ pcalls' = [pcalls EXCEPT ![p] =
                [pc |-> "exec", op |-> "sweep", u |-> NoUser, at |-> MinusMinutes(clock, tmo)]]
          /\ UNCHANGED presult
     ELSE /\ presult' = [NoResult EXCEPT !.res = "noconn"]
          /\ UNCHANGED pcalls
  /\ UNCHANGED <<user_presence, clock, tracker>>
  /\ UNCHANGED <<mvars, rvars>>

PExecute_LostUpdate(p, ok) ==
  /\ pcalls[p].pc = "exec"
  /\ pcalls' = [pcalls EXCEPT ![p] = PIdle]
  /\ LET k == pcalls[p]
     IN IF ok
        THEN /\ user_presence' =
                  IF \E q \in PCallers \ {p} : pcalls[q].pc = "exec" /\ pcalls[q].u = k.u
                  THEN user_presence
                  ELSE
                  CASE k.op = "connect" -> UpsertConnect(user_presence, k.u, Iso(k.at))
                    [] k.op = "disconnect" -> UpdateDisconnect(user_presence, k.u, Iso(k.at))
                    [] OTHER -> SweepStale(user_presence, Iso(k.at))
             /\ tracker' =
                  CASE k.op = "connect" -> TrackConnect(tracker, k.u, k.at)
                    [] k.op = "disconnect" -> TrackDisconnect(tracker, k.u, k.at)
                    [] OTHER -> TrackSweep(tracker, k.at)
             /\ presult' =
                  [op |-> k.op, u |-> k.u, res |-> "ok",
                   rows |-> IF k.op = "sweep"
                            THEN Cardinality(StaleRows(user_presence, Iso(k.at)))
                            ELSE 0,
                   was |-> IF k.op = "sweep" THEN 0 ELSE CountOf(user_presence, k.u)]
        ELSE /\ presult' = [NoResult EXCEPT !.res = "error"]
             /\ UNCHANGED <<user_presence, tracker>>
  /\ UNCHANGED clock
  /\ UNCHANGED <<mvars, rvars>>

\* lines 46-66 and 193-202: the statement and its commit (ok), or an
\* exception and the rollback of lines 70-74 and 207-211
PExecute(p, ok) ==
  /\ pcalls[p].pc = "exec"
  /\ pcalls' = [pcalls EXCEPT ![p] = PIdle]
  /\ LET k == pcalls[p]
     IN IF ok
        THEN /\ user_presence' =
                  CASE k.op = "connect" -> UpsertConnect(user_presence, k.u, Iso(k.at))
                    [] k.op = "disconnect" -> UpdateDisconnect(user_presence, k.u, Iso(k.at))
                    [] OTHER -> SweepStale(user_presence, Iso(k.at))
             /\ tracker' =
                  CASE k.op = "connect" -> TrackConnect(tracker, k.u, k.at)
                    [] k.op = "disconnect" -> TrackDisconnect(tracker, k.u, k.at)
                    [] OTHER -> TrackSweep(tracker, k.at)
             /\ presult' =
                  [op |-> k.op, u |-> k.u, res |-> "ok",
                   rows |-> IF k.op = "sweep"
                            THEN Cardinality(StaleRows(user_presence, Iso(k.at)))
                            ELSE 0,
                   was |-> IF k.op = "sweep" THEN 0 ELSE CountOf(user_presence, k.u)]
        ELSE /\ presult' = [NoResult EXCEPT !.res = "error"]
             /\ UNCHANGED <<user_presence, tracker>>
  /\ UNCHANGED clock
  /\ UNCHANGED <<mvars, rvars>>

\* time passes
Tick ==
  /\ 2 * (clock[1] - StartTime[1]) + clock[2] < MaxTicks
  /\ clock' = IF clock[2] = 0 THEN <<clock[1], 1>> ELSE <<clock[1] + 1, 0>>
  /\ UNCHANGED <<user_presence, pcalls, presult, tracker>>
  /\ UNCHANGED <<mvars, rvars>>

\* the state after __init__ (lines 30-34), with no call in flight
\* ---- the notification routes (routes/notification_routes.py) ----
\* the outcomes of NotificationService.create_notification
DbResults == {"ok", "noconn", "error"}
Note(u, a) == [target_user_id |-> u, from_user_id |-> a]

\* create_notification (notification_service.py lines 52-88): the row is
\* inserted and committed, or the call raises and the table is as it was
create_notification(rows, u, a, dbres) ==
  IF dbres = "ok" THEN Append(rows, Note(u, a)) ELSE rows

\* get_session_info (lines 146-168): the owner of the session row, or None
get_session_info(res, uid) == IF res = "row" THEN uid ELSE NoUser

\* the hierarchy check is left out
WatchStatus_NoHierarchy(crole, owner, orole, can) ==
  IF crole = "raise" THEN 500
  ELSE IF crole # "admin" THEN 403
  ELSE IF owner = NoUser THEN 404
  ELSE IF orole = "raise" THEN 500
  ELSE 200

\* watch_session lines 429-451: require_admin, the session lookup, the role
\* of the owner and the hierarchy check; an exception of a lookup ends the
\* request with an error
WatchStatus(crole, owner, orole, can) ==
  IF crole = "raise" THEN 500
  ELSE IF crole # "admin" THEN 403
  ELSE IF owner = NoUser THEN 404
  ELSE IF orole = "raise" THEN 500
  ELSE IF orole = "admin" /\ ~can THEN 403
  ELSE 200

\* the handler goes on when the row could not be written
NotifyStatus_IgnoreDb(crole, dbres) ==
  IF crole = "raise" THEN 500
  ELSE IF crole # "admin" THEN 403
  ELSE 200

\* send_notification_to_user lines 251-261: require_admin, then
\* create_notification, whose exception ends the request
NotifyStatus(crole, dbres) ==
  IF crole = "raise" THEN 500
  ELSE IF crole # "admin" THEN 403
  ELSE IF dbres # "ok" THEN 500
  ELSE 200

\* the send_to_user a route calls with its own payload
RouteSend(M, t, u, m) ==
  StartSender([M EXCEPT !.tk[t] = [NewTask("send_to_user", m) EXCEPT
                                     !.u = u, !.sw0 = M.sw,
                                     !.owed = Range(get_list(M.c, u))]], t, u)

\* POST /admin/sessions/{session_id}/watch, lines 408-485, up to its first
\* suspension (the send_json of the admin_joined message): crole and orole
\* are what get_effective_role returns for the caller and for the owner, res
\* and uid what the session lookup finds, can what can_manage_user returns.
\* The row written to the session_watchers table afterwards (lines 465-478)
\* is read by nothing modelled here.  A lookup the handler does not reach
\* is given one value only.
watch_session(t, s, a, crole, res, uid, orole, can) ==
  /\ Free(t)
  /\ crole # "admin" => res = "norow"
  /\ res # "row" => orole = MinRole
  /\ (res # "row" \/ orole # "admin") => ~can
  /\ LET owner == IF crole = "admin" THEN get_session_info(res, uid) ELSE NoUser
         role == IF owner # NoUser THEN orole ELSE ""
         st == WatchStatus(crole, owner, role, can)
     IN /\ IF st = 200
           THEN CommitM(RouteSend(AddWatcherCS(Cur, s, a), t, owner, "admin_joined"),
                        t, TRUE, Op("watch_session", a, NoWS, s))
           ELSE CommitM(Cur, Env, TRUE, Op("watch_session", a, NoWS, s))
        /\ route' = [NoRoute EXCEPT !.kind = "watch", !.t = t, !.caller = a, !.sid = s,
                                    !.target = owner, !.crole = crole,
                                    !.found = owner # NoUser, !.orole = role,
                                    !.can = role = "admin" /\ can,
                                    !.status = st, !.sent = st = 200]
        /\ notifications' = notifications

\* POST /notify/{target_user_id}, lines 232-285, up to its first suspension
\* (the send_json of the notification) or to its response
send_notification_to_user(t, a, u, crole, dbres) ==
  /\ Free(t)
  /\ Len(notifications) < MaxNotes
  /\ crole # "admin" => dbres = "ok"
  /\ LET st == NotifyStatus(crole, dbres)
         rows == IF crole = "admin" THEN create_notification(notifications, u, a, dbres)
                 ELSE notifications
         is_online == is_user_online(connections, u)
     IN /\ IF st = 200 /\ is_online
           THEN CommitM(RouteSend(Cur, t, u, "notification"), t, TRUE,
                        Op("send_notification_to_user", u, NoWS, NoSession))
           ELSE CommitM(Cur, Env, TRUE, Op("send_notification_to_user", u, NoWS, NoSession))
        /\ notifications' = rows
        /\ route' = [NoRoute EXCEPT !.kind = "notify", !.t = t, !.caller = a, !.target = u,
                                    !.crole = crole, !.status = st,
                                    !.nid = IF st = 200 THEN Len(rows) ELSE 0,
                                    !.sent = st = 200 /\ is_online,
                                    !.delivered = st = 200 /\ is_online]

InitWith(T) ==
  /\ connections = EmptyMap
  /\ user_sessions = EmptyMap
  /\ session_watchers = EmptyMap
  /\ user_roles = EmptyMap
  /\ lockq = <<>>
  /\ tasks = [t \in T |-> Idle]
  /\ last = NoLast
  /\ user_presence = EmptyMap
  /\ clock = StartTime
  /\ pcalls = [p \in PCallers |-> PIdle]
  /\ presult = NoResult
  /\ tracker = EmptyMap
  /\ notifications = <<>>
  /\ route = NoRoute

Init == InitWith(Tasks)

Next ==
  \/ \E u \in Users, k \in 1..NSock, sid \in Sessions \cup {NoSession}, res \in RoleLookups :
        Connect(u, <<u, k>>, sid, res)
  \/ \E u \in Users, k \in 1..NSock : Disconnect(u, <<u, k>>)
  \/ \E res \in RoleLookups : GrantConnect(res)
  \/ GrantDisconnect
  \/ \E s \in Sessions, a \in Users : add_session_watcher(s, a)
  \/ \E s \in Sessions, a \in Users : remove_session_watcher(s, a)
  \/ \E t \in SendTasks, u \in Users, m \in Msgs : send_to_user(t, u, m)
  \/ \E t \in SendTasks, s \in Sessions, m \in Msgs, x \in Users \cup {NoUser},
        res \in SessionLookups :
        \E uid \in RowsOf(res) : send_to_session(t, s, m, x, get_session_user_id(res, uid))
  \/ \E t \in SendTasks, role \in Roles \cup {"all"}, m \in Msgs : broadcast_to_role(t, role, m)
  \/ \E t \in SendTasks, m \in Msgs : broadcast_all(t, m)
  \/ \E t \in SendTasks : Launch(t)
  \/ \E t \in SendTasks, u \in Users, ok \in BOOLEAN : SendDone(t, u, ok)
  \/ GrantReap
  \/ disconnect_all(Shutdown)
  \/ GrantDisconnectAll
  \/ \E ok \in BOOLEAN : CloseDone(Shutdown, ok)

Spec == Init /\ [][Next]_vars

\* The event loop runs every coroutine that is ready: gathered coroutines
\* start, and a coroutine waiting for the lock gets it once it is first in
\* line.  When a send or a close ends is up to the peer, and callers call when
\* they please: neither is forced.
FairSpec ==
  /\ Spec
  /\ WF_vars(\E t \in SendTasks : Launch(t))
  /\ WF_vars(\E res \in RoleLookups : GrantConnect(res))
  /\ WF_vars(GrantDisconnect)
  /\ WF_vars(GrantReap)
  /\ WF_vars(GrantDisconnectAll)

\* the users of the lock alone: connect, disconnect, the reaping of
\* send_to_user and disconnect_all
LNext ==
  \/ \E u \in Users, k \in 1..NSock : Connect(u, <<u, k>>, NoSession, MinRole)
  \/ \E u \in Users, k \in 1..NSock : Disconnect(u, <<u, k>>)
  \/ GrantConnect(MinRole)
  \/ GrantDisconnect
  \/ \E t \in SendTasks, u \in Users, m \in Msgs : send_to_user(t, u, m)
  \/ \E t \in SendTasks, u \in Users, ok \in BOOLEAN : SendDone(t, u, ok)
  \/ GrantReap
  \/ disconnect_all(Shutdown)
  \/ GrantDisconnectAll
  \/ \E ok \in BOOLEAN : CloseDone(Shutdown, ok)

\* every close of disconnect_all returns or raises, and whoever waits for the
\* lock is resumed when it is free; a send_json may never end
LockFairSpec ==
  /\ Init /\ [][LNext]_vars
  /\ WF_vars(GrantConnect(MinRole))
  /\ WF_vars(GrantDisconnect)
  /\ WF_vars(GrantReap)
  /\ WF_vars(GrantDisconnectAll)
  /\ WF_vars(\E ok \in BOOLEAN : CloseDone(Shutdown, ok))

\* two send_to_user calls for one user, the second invoked while the first is
\* running; users connect meanwhile
FirstSend(u) ==
  /\ tasks[Later].pc \in {"idle", "done"}
  /\ send_to_user(Min(SendTasks), u, M1st)

LaterSend(u) ==
  /\ tasks[Min(SendTasks)].op = "send_to_user" /\ tasks[Min(SendTasks)].u = u
  /\ tasks[Min(SendTasks)].pc \notin {"idle", "done"}
  /\ send_to_user(Later, u, M2nd)

ONext ==
  \/ \E u \in Users, k \in 1..NSock, sid \in Sessions \cup {NoSession}, res \in RoleLookups :
        Connect(u, <<u, k>>, sid, res)
  \/ \E u \in Users : FirstSend(u)
  \/ \E u \in Users : LaterSend(u)
  \/ \E t \in {Min(SendTasks), Later}, u \in Users, ok \in BOOLEAN : SendDone(t, u, ok)

\* a second sending call can be in flight
OInit == InitWith(Tasks \cup {Later})

OrderSpec == OInit /\ [][ONext]_vars

\* the registry with send_to_user as its only sender: connects, disconnects,
\* watchers, the sends and reaps of send_to_user, and the shutdown
UNext ==
  \/ \E u \in Users, k \in 1..NSock, sid \in Sessions \cup {NoSession}, res \in RoleLookups :
        Connect(u, <<u, k>>, sid, res)
  \/ \E u \in Users, k \in 1..NSock : Disconnect(u, <<u, k>>)
  \/ \E res \in RoleLookups : GrantConnect(res)
  \/ GrantDisconnect
  \/ \E s \in Sessions, a \in Users : add_session_watcher(s, a)
  \/ \E s \in Sessions, a \in Users : remove_session_watcher(s, a)
  \/ \E t \in SendTasks, u \in Users, m \in Msgs : send_to_user(t, u, m)
  \/ \E t \in SendTasks, u \in Users, ok \in BOOLEAN : SendDone(t, u, ok)
  \/ GrantReap
  \/ disconnect_all(Shutdown)
  \/ GrantDisconnectAll
  \/ \E ok \in BOOLEAN : CloseDone(Shutdown, ok)

UserSpec == Init /\ [][UNext]_vars

\* the two broadcasts with the connects, the disconnects and the shutdown
\* they meet
BNext ==
  \/ \E u \in Users, k \in 1..NSock, res \in RoleLookups : Connect(u, <<u, k>>, NoSession, res)
  \/ \E u \in Users, k \in 1..NSock : Disconnect(u, <<u, k>>)
  \/ \E res \in RoleLookups : GrantConnect(res)
  \/ GrantDisconnect
  \/ GrantReap
  \/ disconnect_all(Shutdown)
  \/ GrantDisconnectAll
  \/ \E ok \in BOOLEAN : CloseDone(Shutdown, ok)
  \/ \E t \in SendTasks, role \in Roles \cup {"all"}, m \in Msgs : broadcast_to_role(t, role, m)
  \/ \E t \in SendTasks, m \in Msgs : broadcast_all(t, m)
  \/ \E t \in SendTasks : Launch(t)
  \/ \E t \in SendTasks, u \in Users, ok \in BOOLEAN : SendDone(t, u, ok)

BroadcastSpec == Init /\ [][BNext]_vars

\* the routes with the connects, the disconnects and the sends they meet
RNext ==
  \/ \E u \in Users, k \in 1..NSock : Connect(u, <<u, k>>, NoSession, MinRole)
  \/ \E u \in Users, k \in 1..NSock : Disconnect(u, <<u, k>>)
  \/ \E t \in SendTasks, s \in Sessions, a \in Users, crole \in RoleLookups,
        res \in SessionLookups, orole \in RoleLookups, can \in BOOLEAN :
        \E uid \in RowsOf(res) : watch_session(t, s, a, crole, res, uid, orole, can)
  \/ \E t \in SendTasks, a \in Users, u \in Users, crole \in RoleLookups, dbres \in DbResults :
        send_notification_to_user(t, a, u, crole, dbres)
  \/ \E t \in SendTasks, u \in Users, ok \in BOOLEAN : SendDone(t, u, ok)

RouteSpec == Init /\ [][RNext]_vars

\* the presence service alone
PNext ==
  \/ \E p \in PCallers, u \in Users, is_online \in BOOLEAN, conn \in BOOLEAN :
        update_presence(p, u, is_online, conn)
  \/ \E p \in PCallers, tmo \in Timeouts, conn \in BOOLEAN : cleanup_stale_presence(p, tmo, conn)
  \/ \E p \in PCallers, ok \in BOOLEAN : PExecute(p, ok)
  \/ Tick

PresenceSpec == Init /\ [][PNext]_vars

\* ---- the properties ----
Done(t, op) == tasks[t].op = op /\ tasks[t].pc = "done"
\* the users a call tried to send to
Attempted(k) == {u \in Users : k.att[u] # <<>>}
CountIn(l, x) == Cardinality({i \in 1..Len(l) : l[i] = x})
CountOk(a, x) == Cardinality({i \in 1..Len(a) : a[i][1] = x /\ a[i][2]})
CountFail(a) == Cardinality({i \in 1..Len(a) : ~a[i][2]})

\* C1: in every state a user is a key of connections iff it has at least one
\* registered websocket (no entry holds an empty list), so is_user_online(u)
\* is true exactly when u has more than 0 connections.
C1_OnlineIffConnected ==
  \A u \in Users : is_user_online(connections, u) <=> Len(get_list(connections, u)) > 0

\* a user's last socket has just been disconnected while another user is online
C1_Witness ==
  /\ last.op = "disconnect" /\ last.gone # {}
  /\ last.gone \cap DOMAIN connections = {}
  /\ DOMAIN connections # {}

\* C2: in every state user_roles and connections have the same keys.
C2_RolesIffConnected == DOMAIN user_roles = DOMAIN connections

\* reaping after a failed send has just removed a user's last socket, and
\* another user is still connected with its role cached
C2_Witness ==
  /\ last.op = "send_to_user" /\ last.gone # {}
  /\ DOMAIN user_roles # {}

\* C3: in every state a session is a key of session_watchers iff its watcher
\* list is not empty.
C3_WatchersNonEmpty ==
  \A s \in Sessions :
    s \in DOMAIN session_watchers <=> get_session_watchers(session_watchers, s) # <<>>

\* the disconnect cascade has just removed the last watcher of a session
C3_Witness ==
  /\ last.op = "disconnect"
  /\ \E p \in last.unw : p[1] \notin DOMAIN session_watchers

\* C4: a send_to_user(U, m) that ran with nothing interleaved made exactly one
\* send on each registered websocket of U; afterwards U's registered
\* connections are those whose send did not raise, and when every send failed
\* U is not online.
C4_FanOut ==
  \A t \in SendTasks :
    Done(t, "send_to_user") /\ Alone(tasks[t]) =>
      LET k == tasks[t]
          pre == get_list(k.conn0, k.u)
          a == k.att[k.u]
      IN /\ Len(a) = Len(pre)
         /\ \A i \in 1..Len(pre) : a[i][1] = pre[i]
         /\ \A ws \in Sock(k.u) : CountIn(get_list(connections, k.u), ws) = CountOk(a, ws)
         /\ CountFail(a) = Len(a) => ~is_user_online(connections, k.u)

\* a user with two websockets was sent to, exactly one send failed, one socket is left
C4_Witness ==
  \E t \in SendTasks :
    /\ Done(t, "send_to_user") /\ Alone(tasks[t])
    /\ Len(get_list(tasks[t].conn0, tasks[t].u)) = 2
    /\ CountFail(tasks[t].att[tasks[t].u]) = 1
    /\ Len(get_list(connections, tasks[t].u)) = 1

\* C5: when send_to_user(U, m) returns, every websocket of U that stayed
\* registered during the whole call has been sent to.
C5_SendsToAllStable ==
  \A t \in SendTasks : Done(t, "send_to_user") => tasks[t].owed = {}

\* C6: a send_to_session(S, m, exclude_user=X) that resolved the owner A and ran
\* with nothing interleaved sent to exactly the connected users among
\* ({A} union watchers of S) minus {X}.
C6_SessionRouting ==
  \A t \in SendTasks :
    Done(t, "send_to_session") /\ Alone(tasks[t]) /\ tasks[t].owner # NoUser =>
      LET k == tasks[t]
          W == Range(get_session_watchers(k.sw0, k.sid))
      IN Attempted(k) = (({k.owner} \cup W) \ {k.excl}) \cap DOMAIN k.conn0

\* C7: a send_to_session(S, m) that ran with nothing interleaved sent to every
\* watcher of S that was connected when it started and is not excluded.
C7_NoWatcherSkipped ==
  \A t \in SendTasks :
    Done(t, "send_to_session") /\ Alone(tasks[t]) /\ tasks[t].owner # NoUser =>
      LET k == tasks[t]
      IN \A i \in 1..Len(get_session_watchers(k.sw0, k.sid)) :
           LET w == get_session_watchers(k.sw0, k.sid)[i]
           IN w # k.excl /\ w \in DOMAIN k.conn0 => w \in Attempted(k)

\* C8: the step that removes a user's last connection also removes that user
\* from the watcher list of every session.
C8_Cascade ==
  \A u \in last.gone : \A s \in Sessions :
    u \notin Range(get_session_watchers(session_watchers, s))

\* reaping has just removed the only connection of a user who was watching a session
C8_Witness ==
  /\ last.op = "send_to_user"
  /\ \E u \in last.gone : \E p \in last.unw : p[2] = u

\* C9: a watcher entry (S, B) is removed only by remove_session_watcher(S, B),
\* by the removal of B's last connection, or by disconnect_all.
C9_WatchFrame ==
  \A p \in last.unw :
    \/ last.op = "remove_session_watcher"
    \/ p[2] \in last.gone
    \/ last.op = "disconnect_all"

\* C10: a broadcast_to_role(r, m) that ran with nothing interleaved sent to
\* exactly the connected users whose cached role is r, or to every connected
\* user when r is "all".
C10_RoleBroadcast ==
  \A t \in SendTasks :
    Done(t, "broadcast_to_role") /\ Alone(tasks[t]) =>
      LET k == tasks[t]
      IN Attempted(k) = {u \in DOMAIN k.conn0 \cap DOMAIN k.ur0 :
                           k.ur0[u] = k.role \/ k.role = "all"}

\* two users with different roles are connected; the broadcast to "admin"
\* reached one of them and not the other
C10_Witness ==
  \E t \in SendTasks :
    /\ Done(t, "broadcast_to_role") /\ Alone(tasks[t])
    /\ tasks[t].role = "admin"
    /\ Cardinality(DOMAIN tasks[t].conn0) = 2
    /\ Cardinality(Attempted(tasks[t])) = 1

\* C11: in every state, for every (user, websocket) pair, a second
\* disconnect(user, ws) right after the first changes none of connections,
\* user_sessions, user_roles, session_watchers and raises nothing; the
\* disconnect of a websocket that is not registered raises nothing and leaves
\* connections as it is.
C11_DisconnectIdempotent ==
  \A u \in Users : \A ws \in AllSock :
    LET M1 == DisconnectCS(Cur, u, ws)
        M2 == DisconnectCS(M1, u, ws)
    IN /\ Reg(M2) = Reg(M1)
       /\ DisconnectRaises(connections, u, ws) = {}
       /\ DisconnectRaises(M1.c, u, ws) = {}
       /\ ws \notin Range(get_list(connections, u)) => M1.c = connections

\* C12: whenever a failed send has left (u, ws) to be reaped, the reaping
\* disconnect(u, ws) and an explicit disconnect(u, ws) together, in either
\* order, take ws out exactly once, take no other connection of u out, raise
\* nothing, and leave the registry as a single disconnect(u, ws) does.
C12_DoubleCleanup ==
  \A t \in SendTasks : \A u \in Users : \A ws \in Range(tasks[t].snd[u].dead) :
    LET M1 == DisconnectCS(Cur, u, ws)
        M2 == DisconnectCS(M1, u, ws)
    IN /\ Reg(M2) = Reg(M1)
       /\ DisconnectRaises(connections, u, ws) = {}
       /\ DisconnectRaises(M1.c, u, ws) = {}
       /\ \A x \in AllSock :
            CountIn(get_list(M2.c, u), x) =
              CountIn(get_list(connections, u), x) -
                (IF x = ws /\ ws \in Range(get_list(connections, u)) THEN 1 ELSE 0)

\* C13: when disconnect_all returns there is no connection, no online user,
\* user_sessions, session_watchers and user_roles are empty, and a
\* send_to_user for any user then sends nothing and changes nothing.
C13_ShutdownEmpties ==
  Done(Shutdown, "disconnect_all") =>
    /\ get_connection_count(connections) = 0
    /\ get_online_users(connections) = {}
    /\ user_sessions = EmptyMap /\ session_watchers = EmptyMap /\ user_roles = EmptyMap
    /\ \A t \in SendTasks : \A u \in Users :
         LET M0 == [Cur EXCEPT !.tk[t] = [NewTask("send_to_user", "m") EXCEPT !.u = u]]
             M1 == StartSender(M0, t, u)
         IN /\ M1.tk[t].pc = "done"
            /\ \A x \in Users : M1.tk[t].snd[x].pc = "off"
            /\ Reg(M1) = Reg(Cur)

\* disconnect_all has just returned after clearing two users' connections
\* and a watcher list
C13_Witness ==
  /\ Done(Shutdown, "disconnect_all")
  /\ last.op = "disconnect_all"
  /\ Cardinality(last.gone) = 2 /\ last.unw # {}

\* C14: while disconnect_all is between its first close and the clearing of
\* the maps it holds the lock, and no step of a connect or disconnect changes
\* connections, user_roles or user_sessions; the step that ends the closing
\* leaves them empty.
C14_MutualExclusion ==
  [][tasks[Shutdown].pc = "closing" =>
       /\ lockq # <<>> /\ Head(lockq).kind = "disconnect_all"
       /\ IF tasks'[Shutdown].pc = "closing"
          THEN /\ connections' = connections
               /\ user_roles' = user_roles
               /\ user_sessions' = user_sessions
          ELSE /\ connections' = EmptyMap
               /\ user_roles' = EmptyMap
               /\ user_sessions' = EmptyMap]_vars

\* disconnect_all is closing sockets while a connect waits for the lock
C14_Witness ==
  /\ tasks[Shutdown].pc = "closing"
  /\ \E i \in 1..Len(lockq) : lockq[i].kind = "connect"

\* the sockets a call has tried, user by user
RECURSIVE AttFlat(_, _)
AttFlat(att, S) ==
  IF S = {} THEN <<>>
  ELSE LET u == Min(S)
       IN [i \in 1..Len(att[u]) |-> att[u][i][1]] \o AttFlat(att, S \ {u})

\* C15: a disconnect_all that ran with nothing interleaved tries one close
\* with code 1001 on every websocket that was registered when it took the
\* lock; while it is closing no map has been cleared; closes that raise are
\* not retried and stop neither the remaining closes nor the clearing of the
\* four maps.
C15_CloseAllThenClear ==
  LET k == tasks[Shutdown]
      all == Flatten(k.conn0, DOMAIN k.conn0)
  IN k.op = "disconnect_all" /\ Alone(k) =>
       /\ k.pc = "closing" =>
            /\ connections = k.conn0 /\ user_roles = k.ur0 /\ session_watchers = k.sw0
            /\ AttFlat(k.att, Users) \o k.closeq = all
       /\ k.pc = "done" =>
            /\ AttFlat(k.att, Users) = all
            /\ \A u \in Users : \A i \in 1..Len(k.att[u]) : k.att[u][i][3] = 1001
            /\ connections = EmptyMap /\ user_sessions = EmptyMap
            /\ session_watchers = EmptyMap /\ user_roles = EmptyMap

\* a shutdown with two registered sockets has returned; exactly one of the two
\* closes raised
C15_Witness ==
  LET k == tasks[Shutdown]
  IN /\ Done(Shutdown, "disconnect_all") /\ Alone(k)
     /\ Len(Flatten(k.conn0, DOMAIN k.conn0)) = 2
     /\ Cardinality({p \in Users \X (1..2) : p[2] <= Len(k.att[p[1]]) /\ ~k.att[p[1]][p[2]][2]}) = 1

\* ---- the presence service ----
\* the call of caller p runs its statement in this step, and commits
Executes(p, op) ==
  pcalls[p].pc = "exec" /\ pcalls[p].op = op /\ pcalls'[p].pc = "idle" /\ presult'.res = "ok"
\* the last call to end was this one, and it committed
Committed(op) == presult.op = op /\ presult.res = "ok"

\* C16: after any sequence of presence connects, disconnects and sweeps every
\* record has connection_count >= 0 and is_online = 1 exactly when
\* connection_count > 0; is_online never goes from 1 to 0 with a count left,
\* and a disconnect turns it from 1 to 0 exactly when its decrement brings the
\* count to 0.
C16_PresenceInvariant ==
  /\ [](\A u \in DOMAIN user_presence :
          /\ user_presence[u].connection_count >= 0
          /\ user_presence[u].is_online = 1 <=> user_presence[u].connection_count > 0)
  /\ [][\A u \in DOMAIN user_presence :
          /\ (user_presence[u].is_online = 1 /\ user_presence'[u].is_online = 0)
               => user_presence'[u].connection_count = 0
          /\ \A p \in PCallers :
               (Executes(p, "disconnect") /\ pcalls[p].u = u)
                 => ((user_presence[u].is_online = 1 /\ user_presence'[u].is_online = 0)
                       <=> (user_presence[u].connection_count > 0
                              /\ user_presence'[u].connection_count = 0))]_vars
\* a disconnect has taken the only connection of a user: count 0, offline
C16_Witness ==
  /\ Committed("disconnect") /\ presult.was = 1
  /\ user_presence[presult.u].connection_count = 0
  /\ user_presence[presult.u].is_online = 0

\* the rows of the users other than u are what they were
OtherRowsKept(u) ==
  \A v \in (DOMAIN user_presence \cup DOMAIN user_presence') \ {u} :
    v \in DOMAIN user_presence /\ v \in DOMAIN user_presence'
      /\ user_presence'[v] = user_presence[v]

\* C17: a committed update_presence(u, True) creates the record of u with
\* connection_count 1 and is_online 1 when there is none, and otherwise adds
\* exactly 1 to connection_count, sets is_online to 1 and sets last_seen to the
\* time the call read; a committed update_presence(u, False) sets
\* connection_count to max(0, count - 1), is_online to (new count > 0) and
\* last_seen to the time the call read, and creates no record when there is
\* none.  No other record changes.
C17_UpdatePresence ==
  [][\A p \in PCallers :
       LET u == pcalls[p].u
           now == Iso(pcalls[p].at)
       IN /\ Executes(p, "connect") =>
               /\ u \in DOMAIN user_presence'
               /\ user_presence'[u].is_online = 1
               /\ user_presence'[u].last_seen = now
               /\ user_presence'[u].connection_count =
                    IF u \in DOMAIN user_presence
                    THEN user_presence[u].connection_count + 1
                    ELSE 1
               /\ OtherRowsKept(u)
          /\ Executes(p, "disconnect") =>
               /\ DOMAIN user_presence' = DOMAIN user_presence
               /\ u \in DOMAIN user_presence =>
                    /\ user_presence'[u].connection_count =
                         (IF user_presence[u].connection_count - 1 > 0
                          THEN user_presence[u].connection_count - 1
                          ELSE 0)
                    /\ user_presence'[u].is_online = 1
                         <=> user_presence'[u].connection_count > 0
                    /\ user_presence'[u].is_online \in {0, 1}
                    /\ user_presence'[u].last_seen = now
               /\ OtherRowsKept(u)]_vars
\* a second connection of a user has been counted, at a later time than the first
C17_Witness ==
  /\ Committed("connect") /\ presult.was = 1
  /\ user_presence[presult.u].connection_count = 2
  /\ user_presence[presult.u].last_seen = Iso(clock)
  /\ clock # StartTime

\* C18: a committed cleanup_stale_presence(t) sets is_online = 0 and
\* connection_count = 0 on every record that is online and whose last_seen is
\* a time before the cutoff (the time the call read, minus t minutes), and
\* leaves as it is every record that is offline or whose last_seen is not
\* before the cutoff; it adds and removes no record.
C18_SweepStale ==
  [][\A p \in PCallers :
       Executes(p, "sweep") =>
         /\ DOMAIN user_presence' = DOMAIN user_presence
         /\ \A u \in DOMAIN user_presence :
              IF user_presence[u].is_online = 1
                   /\ TimeLess(ParseIso(user_presence[u].last_seen), pcalls[p].at)
              THEN /\ user_presence'[u].is_online = 0
                   /\ user_presence'[u].connection_count = 0
                   /\ user_presence'[u].last_seen = user_presence[u].last_seen
              ELSE user_presence'[u] = user_presence[u]]_vars
\* a sweep has put one user offline and left another, seen since, online
C18_Witness ==
  /\ Committed("sweep") /\ presult.rows = 1
  /\ \E u \in DOMAIN user_presence, v \in DOMAIN user_presence :
       /\ user_presence[u].is_online = 0 /\ user_presence[u].connection_count = 0
       /\ user_presence[v].is_online = 1
       /\ TimeLess(ParseIso(user_presence[u].last_seen), ParseIso(user_presence[v].last_seen))

\* C19: for any interleaving of presence connects, disconnects and sweeps,
\* overlapping calls for one user included, the connection_count and is_online
\* of every record are those that the committed updates give when run one
\* after another: no update is lost, and a connect that overlaps a disconnect
\* is counted.
C19_Serializable ==
  /\ DOMAIN user_presence = DOMAIN tracker
  /\ \A u \in DOMAIN user_presence :
       /\ user_presence[u].connection_count = tracker[u].count
       /\ user_presence[u].is_online = 1 <=> tracker[u].online
\* a connect has committed while a disconnect of the same user is in flight,
\* and a connection of the user was counted before
C19_Witness ==
  /\ Committed("connect") /\ presult.was = 1
  /\ \E q \in PCallers :
       pcalls[q].pc = "exec" /\ pcalls[q].op = "disconnect" /\ pcalls[q].u = presult.u
  /\ user_presence[presult.u].connection_count = 2

\* ---- the manager and the presence service ----
\* a presence update of the given kind is called for u in this step
PresenceCalled(u, op) ==
  \/ \E p \in PCallers :
       pcalls[p].pc = "idle" /\ pcalls'[p].pc = "exec"
         /\ pcalls'[p].op = op /\ pcalls'[p].u = u
  \/ presult' # presult

\* C20: the step that registers the first connection of a user calls a
\* presence "came online" update for that user, the step that removes the
\* last connection of a user (a disconnect or the reaping of a dead
\* connection) calls a "went offline" update, and a connect or disconnect
\* that is neither first nor last calls none.
C20_PresenceTriggered ==
  [][\A u \in Users :
       /\ (u \notin DOMAIN connections /\ u \in DOMAIN connections')
            => PresenceCalled(u, "connect")
       /\ (u \in DOMAIN connections /\ u \notin DOMAIN connections'
             /\ last'.op # "disconnect_all")
            => PresenceCalled(u, "disconnect")
       /\ (u \in DOMAIN connections /\ u \in DOMAIN connections'
             /\ connections'[u] # connections[u])
            => ~(PresenceCalled(u, "connect") \/ PresenceCalled(u, "disconnect"))]_vars

\* ---- the watcher index and the lock ----
\* C21: in every state every user of every session_watchers list has at
\* least one registered connection.
C21_WatchersConnected ==
  \A s \in DOMAIN session_watchers :
    \A a \in Range(session_watchers[s]) : is_user_online(connections, a)

\* C22: while disconnect_all holds the lock, suspended between two closes, no
\* step adds a watcher to session_watchers or removes one from it.
C22_WatchersUnderLock ==
  [][(tasks[Shutdown].pc = "closing" /\ tasks'[Shutdown].pc = "closing")
       => session_watchers' = session_watchers]_vars

\* ---- failures ----
IsBroadcast(k) == k.op \in {"broadcast_to_role", "broadcast_all"}
\* the call waits for a send to end, for the lock, or for its coroutines to start
Outstanding(t) ==
  \/ tasks[t].pc \in {"launch", "lockwait", "closing"}
  \/ \E u \in Users : tasks[t].snd[u].pc = "send"
  \/ \E i \in 1..Len(lockq) : lockq[i].kind = "reap" /\ lockq[i].t = t

\* C23: when a broadcast_to_role or broadcast_all returns, every websocket of
\* every target user from whose list nothing was removed during the call has
\* been sent to, whatever happened to the other targets (sends that raised,
\* users that disconnected, reaping); and a broadcast never ends otherwise than
\* by returning: while it has not returned it waits for a send, for the lock
\* or for its coroutines to start.
C23_BroadcastIsolation ==
  \A t \in SendTasks :
    IsBroadcast(tasks[t]) =>
      /\ tasks[t].pc = "done" => tasks[t].owed = {}
      /\ tasks[t].pc \notin {"idle", "done"} => Outstanding(t)

\* a broadcast to two users has returned; a send to one of them raised and the
\* other was sent to
C23_Witness ==
  \E t \in SendTasks :
    /\ Done(t, "broadcast_all") /\ Alone(tasks[t])
    /\ \E a \in tasks[t].targets, b \in tasks[t].targets :
         /\ a # b
         /\ CountFail(tasks[t].att[a]) > 0
         /\ tasks[t].att[b] # <<>> /\ CountFail(tasks[t].att[b]) = 0

\* the call is suspended in its i-th send to the sockets of u, on ws
Blocked(t, u, i, ws) ==
  /\ tasks[t].op \in {"send_to_user", "send_to_session"}
  /\ tasks[t].snd[u].pc = "send"
  /\ tasks[t].snd[u].idx = i /\ tasks[t].snd[u].cur = ws

\* C24: whenever a send_to_user or a send_to_session is suspended in a send
\* while other websockets of its targets, registered since it started, have
\* not been sent to, then either that send ends or those websockets are sent
\* to (or leave the registry): a send that never ends stalls no other
\* destination of the call.
C24_NoStall ==
  \A t \in SendTasks : \A u \in Users : \A i \in 1..MaxConns : \A ws \in Sock(u) :
    (Blocked(t, u, i, ws) /\ tasks[t].owed \ {ws} # {})
      ~> (~Blocked(t, u, i, ws) \/ tasks[t].owed \ {ws} = {})

\* ---- the order of the sends ----
\* the call t issues a send on ws, a socket of u, in this step
Issues(t, u, ws) ==
  /\ tasks'[t].snd[u].pc = "send" /\ tasks'[t].snd[u].cur = ws
  /\ tasks'[t].snd[u].idx = (IF tasks[t].pc \in {"idle", "done"} THEN 0 ELSE tasks[t].snd[u].idx) + 1
\* the sends the call t, still in its loop, has issued on the sockets of u
IssuedBy(tk, c, t, u) ==
  LET s == tk[t].snd[u]
      l == IF s.det THEN s.lst ELSE get_list(c, u)
  IN IF tk[t].op = "send_to_user" /\ tk[t].pc \notin {"idle", "done"} /\ s.pc = "send"
     THEN SubSeq(l, 1, s.idx)
     ELSE <<>>

\* C25: when send_to_user(U, m1) is invoked before send_to_user(U, m2), the
\* send of m1 on a connection of U is never issued after the send of m2 on
\* that connection: when the first call issues its n-th send on a websocket,
\* the second call has issued fewer than n sends on it.
C25_SendOrder ==
  [][\A u \in Users : \A ws \in Sock(u) :
       (Issues(Min(SendTasks), u, ws) /\ tasks[Min(SendTasks)].msg = M1st
          /\ tasks[Later].msg = M2nd)
         => CountIn(IssuedBy(tasks, connections, Later, u), ws)
              < CountIn(IssuedBy(tasks', connections', Min(SendTasks), u), ws)]_vars

\* ---- copies ----
\* C26: a call that ran with nothing interleaved (send_to_user,
\* send_to_session or a broadcast) made at most one send attempt on any
\* websocket, whether the send raised or not.
C26_AtMostOnce ==
  \A t \in SendTasks :
    Alone(tasks[t]) =>
      \A u \in Users : \A ws \in Sock(u) :
        Cardinality({i \in 1..Len(tasks[t].att[u]) : tasks[t].att[u][i][1] = ws}) <= 1

\* ---- absent targets ----
\* the step is a call of op by t
Calls(t, op) ==
  /\ tasks[t].pc \in {"idle", "done"}
  /\ tasks'[t].op = op /\ tasks'[t].pc # "idle"
\* the step changes nothing of the registry and leaves nobody waiting for the lock
NoEffect ==
  /\ connections' = connections /\ user_roles' = user_roles
  /\ user_sessions' = user_sessions /\ session_watchers' = session_watchers
  /\ lockq' = lockq
\* the call of t has returned and has no send in progress or to come
Returned(t) ==
  /\ tasks'[t].pc = "done" /\ tasks'[t].pend = {}
  /\ \A x \in Users : tasks'[t].snd[x].pc = "off" /\ tasks'[t].snd[x].dead = <<>>

\* C27: a send_to_user for a user with no registered connection returns in
\* the step of the call, with no send issued and none left in progress or to
\* come (a connection registered later gets nothing from it), and changes
\* none of connections, user_roles, user_sessions and session_watchers.
C27_AbsentUserNoOp ==
  [][\A t \in SendTasks :
       (Calls(t, "send_to_user") /\ ~is_user_online(connections, tasks'[t].u))
         => NoEffect /\ Returned(t) /\ tasks'[t].att = NoAtt]_vars

\* a send_to_user for a user that is not connected has returned while another
\* user is connected and watches a session
C27_Witness ==
  \E t \in SendTasks :
    /\ Done(t, "send_to_user") /\ Alone(tasks[t])
    /\ ~is_user_online(tasks[t].conn0, tasks[t].u)
    /\ tasks[t].conn0 = connections /\ DOMAIN connections # {}
    /\ session_watchers # EmptyMap

\* C28: a send_to_session whose owner lookup gave nothing (unknown session,
\* no store, or an exception inside the lookup) returns in the step of the
\* call without a send to anyone, the watchers of the session included, and
\* changes none of the four maps.
C28_UnresolvedSessionNoOp ==
  [][\A t \in SendTasks :
       (Calls(t, "send_to_session") /\ tasks'[t].owner = NoUser)
         => NoEffect /\ Returned(t) /\ tasks'[t].att = NoAtt]_vars

\* a send_to_session with no owner found has returned; the session has a
\* watcher who is connected and not excluded
C28_Witness ==
  \E t \in SendTasks :
    /\ Done(t, "send_to_session") /\ Alone(tasks[t])
    /\ tasks[t].owner = NoUser
    /\ \E a \in Range(get_session_watchers(session_watchers, tasks[t].sid)) :
         is_user_online(connections, a) /\ a # tasks[t].excl

\* the values of the role argument named by broadcast_to_role, line 166
RoleArgs == {"admin", "mentorado", "mentor", "lead", "all"}

\* C29: whatever fails (a send_json or a close that raises, a role or session
\* lookup that raises or finds nothing, a disconnect of a websocket that is no
\* longer registered), no call ends by raising: disconnect raises nothing for
\* any user and websocket, a call that has not returned always has a send, a
\* close, the lock or the start of its coroutines to wait for, the cached
\* roles are roles, and the registry keeps its invariants: no user has an
\* empty connection list, user_roles has the keys of connections, no session
\* has an empty watcher list and no watcher is listed twice.
C29_FailuresContained ==
  /\ \A u \in Users : \A x \in Users : \A ws \in Sock(x) : DisconnectRaises(connections, u, ws) = {}
  /\ \A t \in Tasks : tasks[t].pc \notin {"idle", "done"} => Outstanding(t)
  /\ \A u \in DOMAIN user_roles : user_roles[u] \in Roles
  /\ \A u \in DOMAIN connections : connections[u] # <<>>
  /\ DOMAIN user_roles = DOMAIN connections
  /\ \A s \in DOMAIN session_watchers :
       /\ session_watchers[s] # <<>>
       /\ \A a \in Users : CountIn(session_watchers[s], a) <= 1
\* a broadcast_all to two users has returned; every send of it raised and
\* nobody is connected any more
C29_Witness ==
  \E t \in SendTasks :
    /\ Done(t, "broadcast_all") /\ Alone(tasks[t])
    /\ Cardinality(Attempted(tasks[t])) = 2
    /\ \A u \in Attempted(tasks[t]) : CountFail(tasks[t].att[u]) = Len(tasks[t].att[u])
    /\ connections = EmptyMap

\* C30: right after a connect whose role lookup raised (the first connect of
\* the user), the websocket is registered, the cached role of the user is
\* "mentorado", and of the role broadcasts only those to "mentorado" and to
\* "all" have the user among their targets.
C30_FallbackRole ==
  \A ws \in last.dflt :
    /\ ws[1] \in DOMAIN connections /\ ws \in Range(connections[ws[1]])
    /\ ws[1] \in DOMAIN user_roles /\ user_roles[ws[1]] = "mentorado"
    /\ \A r \in RoleArgs :
         ws[1] \in RoleTargets(user_roles, r) <=> r \in {"mentorado", "all"}
\* a user has just connected with a failed role lookup while a user with the
\* role "admin" is connected
C30_Witness ==
  /\ last.op = "connect" /\ last.dflt # {}
  /\ \E a \in DOMAIN user_roles : user_roles[a] = "admin"

\* what a broadcast that has just been called will do: its targets, the sends
\* its coroutines issue when they start, and the registry and the lock queue
\* they leave
Started(M, t) ==
  LET L == LaunchAll([M EXCEPT !.tk[t].pc = "run"], t)
  IN [targets |-> M.tk[t].targets, pend |-> M.tk[t].pend, owed |-> M.tk[t].owed,
      pc |-> M.tk[t].pc, snd |-> L.tk[t].snd, done |-> L.tk[t].pc,
      reg |-> Reg(L), lq |-> L.lq]

\* C31: in every state a broadcast_all(m) and a broadcast_to_role("all", m)
\* called there have the same targets, issue the same sends when their
\* coroutines start and leave the same registry and lock queue; the states
\* include those where a connect waits for the lock, and there is no state in
\* which a user is a key of connections and not of user_roles.
C31_BroadcastAllIsRoleAll ==
  \A t \in SendTasks : \A m \in Msgs :
    Free(t) => Started(AllStart(t, m), t) = Started(RoleStart(t, "all", m), t)
\* a broadcast_to_role("all") that ran alone has returned after sending to two
\* users of different roles
C31_Witness ==
  \E t \in SendTasks :
    /\ Done(t, "broadcast_to_role") /\ tasks[t].role = "all" /\ Alone(tasks[t])
    /\ Cardinality(Attempted(tasks[t])) = 2
    /\ Cardinality(Range(tasks[t].ur0)) = 2

\* C32: in every state, for every session s and user a: after
\* add_session_watcher(s, a) the user is in the watchers of s exactly once,
\* the watchers that were there keep their places and a new one comes last,
\* the other sessions are untouched, and a second add_session_watcher(s, a)
\* changes nothing; get_session_watchers is the empty sequence for a session
\* that is no key of session_watchers; remove_session_watcher(s, a) for an a
\* that does not watch s changes nothing.
C32_WatcherListAlgebra ==
  \A s \in Sessions : \A a \in Users :
    LET old == get_session_watchers(session_watchers, s)
        M1 == AddWatcherCS(Cur, s, a)
        new == get_session_watchers(M1.sw, s)
    IN /\ CountIn(new, a) = 1
       /\ SubSeq(new, 1, Len(old)) = old
       /\ Len(new) = Len(old) + (IF a \in Range(old) THEN 0 ELSE 1)
       /\ new[Len(new)] = a \/ a \in Range(old)
       /\ \A s2 \in Sessions \ {s} :
            get_session_watchers(M1.sw, s2) = get_session_watchers(session_watchers, s2)
       /\ AddWatcherCS(M1, s, a) = M1
       /\ [M1 EXCEPT !.sw = Cur.sw] = Cur
       /\ s \notin DOMAIN session_watchers => old = <<>>
       /\ a \notin Range(old) => RemoveWatcherCS(Cur, s, a) = Cur
\* a session has two watchers, listed in the order they were added and not in
\* the order of their ids
C32_Witness ==
  \E s \in DOMAIN session_watchers :
    /\ Len(session_watchers[s]) = 2
    /\ session_watchers[s][1] > session_watchers[s][2]

\* the step ends a send_json of call t to user u
SendStep(t, u) ==
  /\ tasks[t].snd[u].pc = "send"
  /\ tasks'[t].snd[u].idx # tasks[t].snd[u].idx \/ tasks'[t].snd[u].pc # "send"
\* the step gives the lock to a reaping disconnect of call t for user u
ReapStep(t, u) ==
  /\ lockq # <<>> /\ Head(lockq).kind = "reap" /\ Head(lockq).t = t /\ Head(lockq).u = u
  /\ lockq' = <<>> \/ Head(lockq') # Head(lockq)
\* the step ends a close of disconnect_all
CloseStep ==
  /\ tasks[Shutdown].pc = "closing" /\ tasks'[Shutdown].closeq # tasks[Shutdown].closeq
\* the websockets whose send by call t has raised, or is ending in this step
Failing(t, u) ==
  Range(tasks[t].snd[u].dead) \cup
    (IF tasks[t].snd[u].pc = "send" THEN {tasks[t].snd[u].cur} ELSE {})

\* C34: a send_to_user that ran alone and had every send succeed has left
\* connections, user_sessions, user_roles and session_watchers as they were,
\* and any send_to_user that ran alone has kept every websocket none of whose
\* sends raised; calling send_to_user changes none of the four maps; a step
\* of a sending call for user u (a send that ends, a reaping disconnect that
\* gets the lock) leaves the connections of every other user alone and takes
\* out of u's list only websockets whose send raised in this call or ends in
\* this step, one registration at most for each failed send; a close that
\* ends in disconnect_all removes no single connection.
C34_ReapFrame ==
  /\ [](\A t \in SendTasks :
          Done(t, "send_to_user") /\ Alone(tasks[t]) =>
            LET k == tasks[t]
                a == k.att[k.u]
            IN /\ CountFail(a) = 0 =>
                    /\ connections = k.conn0 /\ user_sessions = k.us0
                    /\ user_roles = k.ur0 /\ session_watchers = k.sw0
               /\ \A x \in Users \ {k.u} : get_list(connections, x) = get_list(k.conn0, x)
               /\ \A ws \in Sock(k.u) :
                    CountOk(a, ws) = CountIn(get_list(k.conn0, k.u), ws)
                      => CountIn(get_list(connections, k.u), ws)
                           = CountIn(get_list(k.conn0, k.u), ws))
  /\ [][/\ \A t \in SendTasks :
            Calls(t, "send_to_user") =>
              /\ connections' = connections /\ user_sessions' = user_sessions
              /\ user_roles' = user_roles /\ session_watchers' = session_watchers
        /\ \A t \in SendTasks : \A u \in Users :
            (SendStep(t, u) \/ ReapStep(t, u)) =>
              /\ \A x \in Users \ {u} : get_list(connections', x) = get_list(connections, x)
              /\ \A ws \in Sock(u) :
                   LET before == CountIn(get_list(connections, u), ws)
                       after == CountIn(get_list(connections', u), ws)
                   IN /\ after <= before
                      /\ after < before => ws \in Failing(t, u)
                      /\ before - after <= CountIn(tasks[t].snd[u].dead, ws) + 1
        /\ CloseStep => connections' = connections \/ connections' = EmptyMap]_vars
\* a send_to_user to a user with two websockets who watches a session has
\* returned, every send succeeded, and another user is connected
C34_Witness ==
  \E t \in SendTasks :
    /\ Done(t, "send_to_user") /\ Alone(tasks[t])
    /\ Len(tasks[t].att[tasks[t].u]) = 2 /\ CountFail(tasks[t].att[tasks[t].u]) = 0
    /\ \E s \in DOMAIN session_watchers : tasks[t].u \in Range(session_watchers[s])
    /\ tasks[t].u \in DOMAIN user_sessions

\* C35: in every state each websocket stored in user_sessions[u] is in
\* connections[u] and no user has an empty session map; and a step that takes
\* a registration of a websocket out of connections[u] (a disconnect, a reaping
\* disconnect, the clear of disconnect_all) leaves no session of u mapped to it.
C35_SessionIndex ==
  /\ [](\A u \in DOMAIN user_sessions :
          /\ DOMAIN user_sessions[u] # {}
          /\ \A sid \in DOMAIN user_sessions[u] :
               user_sessions[u][sid] \in Range(get_list(connections, u)))
  /\ [][\A u \in Users : \A ws \in Sock(u) :
          CountIn(get_list(connections', u), ws) < CountIn(get_list(connections, u), ws)
            => \/ u \notin DOMAIN user_sessions'
               \/ \A sid \in DOMAIN user_sessions'[u] : user_sessions'[u][sid] # ws]_vars
\* a send_to_user that ran alone has reaped the websocket a session of the
\* user was mapped to; the user is still connected and has no session mapping
C35_Witness ==
  \E t \in SendTasks :
    /\ Done(t, "send_to_user") /\ Alone(tasks[t])
    /\ tasks[t].u \in DOMAIN tasks[t].us0
    /\ tasks[t].u \in DOMAIN connections
    /\ tasks[t].u \notin DOMAIN user_sessions

\* a coroutine of one of these kinds waits for the lock
Waits(kinds) == \E i \in 1..Len(lockq) : lockq[i].kind \in kinds
\* the lock is held across a suspension: disconnect_all is closing
Held == lockq # <<>> /\ Head(lockq).kind = "disconnect_all"
                    /\ tasks[Head(lockq).t].pc = "closing"

\* C36: the only coroutine that keeps the lock across a suspension is a
\* disconnect_all that is closing; it does not wait for the lock again and
\* has no send in progress, a disconnect_all that has returned is not in the
\* lock queue, and a coroutine suspended in a send does not wait for the
\* lock.  With every close ending and every waiter resumed when the lock is
\* free, each connect, disconnect and reaping disconnect that waits for the
\* lock gets it, and each disconnect_all that started completes.
C36_NoDeadlock ==
  /\ [](\A i \in 1..Len(lockq) :
          /\ lockq[i].kind = "disconnect_all" =>
               /\ i = 1 \/ tasks[lockq[i].t].pc = "lockwait"
               /\ tasks[lockq[i].t].op = "disconnect_all"
               /\ tasks[lockq[i].t].pc \in {"lockwait", "closing"}
               /\ \A j \in 1..Len(lockq) : lockq[j].t = lockq[i].t => j = i
               /\ \A u \in Users : tasks[lockq[i].t].snd[u].pc = "off"
          /\ lockq[i].kind = "reap" =>
               /\ tasks[lockq[i].t].snd[lockq[i].u].pc = "reap"
               /\ \A j \in 1..Len(lockq) :
                    (lockq[j].t = lockq[i].t /\ lockq[j].u = lockq[i].u) => j = i)
  /\ Waits({"connect", "disconnect"}) ~> ~Waits({"connect", "disconnect"})
  /\ Waits({"reap"}) ~> ~Waits({"reap"})
  /\ tasks[Shutdown].pc \in {"lockwait", "closing"}
       ~> tasks[Shutdown].pc \notin {"lockwait", "closing"}
\* disconnect_all is closing with the lock held while a reaping disconnect
\* waits for it
C36_Witness ==
  /\ Held
  /\ Waits({"reap"})

\* C37: a step leaves the cached role of every user that is connected before
\* and after it as it was; a role enters the cache only in a step that
\* registers the first connection of the user; and in every state a
\* broadcast_to_role(r) would target exactly the connected users whose role,
\* cached at their first connect, is r.
C37_RoleCachedOnce ==
  /\ [][\A u \in Users :
          /\ (u \in DOMAIN connections /\ u \in DOMAIN connections')
               => (u \in DOMAIN user_roles /\ u \in DOMAIN user_roles'
                   /\ user_roles'[u] = user_roles[u])
          /\ (u \in DOMAIN user_roles' /\ u \notin DOMAIN user_roles)
               => (u \notin DOMAIN connections /\ Len(get_list(connections', u)) = 1)]_vars
  /\ [](\A r \in Roles :
          RoleTargets(user_roles, r) = {u \in DOMAIN connections : user_roles[u] = r})
\* a user whose role was cached as "mentorado" has registered a second
\* connection
C37_Witness ==
  \E u \in DOMAIN connections :
    Len(connections[u]) = 2 /\ user_roles[u] = "mentorado"

\* the connection_count of u, 0 while u has no record
Balance(tbl, u) == IF u \in DOMAIN tbl THEN tbl[u].connection_count ELSE 0
ExecutesFor(u, op) == \E p \in PCallers : Executes(p, op) /\ pcalls[p].u = u

\* C38: over the committed presence connects and disconnects of one user, with
\* every disconnect after its connect and no sweep in between, the
\* connection_count is the number of connects minus the number of disconnects:
\* every connect adds exactly one, every disconnect that finds a counted
\* connection takes exactly one off, and the only other step that changes the
\* count of a user is a sweep, which sets it to 0.
C38_CountIsBalance ==
  [][\A u \in Users :
       LET c0 == Balance(user_presence, u)
           c1 == Balance(user_presence', u)
       IN /\ ExecutesFor(u, "connect") => c1 = c0 + 1
          /\ (ExecutesFor(u, "disconnect") /\ c0 >= 1) => c1 = c0 - 1
          /\ c1 # c0 =>
               \/ ExecutesFor(u, "connect")
               \/ ExecutesFor(u, "disconnect")
               \/ (\E p \in PCallers : Executes(p, "sweep")) /\ c1 = 0]_vars
\* a disconnect of a user with two counted connections has committed and one
\* connection is left
C38_Witness ==
  /\ Committed("disconnect") /\ presult.was = 2
  /\ user_presence[presult.u].connection_count = 1
  /\ user_presence[presult.u].is_online = 1

\* ---- the notification routes ----
\* the call t starts in this step with payload m and issues its first send
StartsSending(t, m) ==
  /\ tasks[t].pc \in {"idle", "done"}
  /\ tasks'[t].msg = m
  /\ \E u \in Users : \E ws \in Sock(u) : Issues(t, u, ws)
Sending(t) == \E u \in Users : tasks[t].snd[u].pc = "send"
\* no send is issued in this step
NoSendIssued ==
  \A t \in SendTasks : \A u \in Users :
    tasks'[t].snd[u].pc = "send" =>
      /\ tasks[t].pc \notin {"idle", "done"}
      /\ tasks[t].snd[u] = tasks'[t].snd[u]

\* C33: a watcher enters a watcher list, and an admin_joined message is sent,
\* only in a watch_session request whose caller was found to be an admin,
\* whose session was found and, when the owner of the session is an admin,
\* whose can_manage_user(caller, owner) check passed; a request that is
\* rejected (or ends in an error) changes no watcher list, nothing else of the
\* manager, and issues no send.
C33_WatchGuarded ==
  [][LET passed == /\ route'.kind = "watch" /\ route'.status = 200
                   /\ route'.crole = "admin" /\ route'.found
                   /\ route'.orole = "admin" => route'.can
     IN /\ \A p \in WatchPairs(session_watchers') \ WatchPairs(session_watchers) :
             passed /\ p = <<route'.sid, route'.caller>>
        /\ \A t \in SendTasks : StartsSending(t, "admin_joined") => passed /\ t = route'.t
        /\ (route'.kind = "watch" /\ route'.status # 200) =>
             /\ NoEffect
             /\ NoSendIssued]_vars
\* an admin watches the session of another admin it can manage, and the
\* admin_joined message is being sent to the owner
C33_Witness ==
  /\ route.kind = "watch" /\ route.status = 200
  /\ route.orole = "admin" /\ route.can
  /\ <<route.sid, route.caller>> \in WatchPairs(session_watchers)
  /\ tasks[route.t].msg = "admin_joined"
  /\ tasks[route.t].snd[route.target].pc = "send"

\* C39: in the notify route the row is written before anything is sent: a
\* notification is sent only in a request that has appended its row, and the
\* row of a request that is answered with success is in the table with the id
\* the response carries; delivered is true exactly when the target was a key
\* of connections when the handler checked, a send is issued exactly in that
\* case, and a request with delivered false issues no send.
C39_PersistThenDeliver ==
  /\ []((route.kind = "notify" /\ route.status = 200) =>
          /\ route.nid \in 1..Len(notifications)
          /\ notifications[route.nid] = Note(route.target, route.caller))
  /\ [][/\ \A t \in SendTasks :
             StartsSending(t, "notification") =>
               /\ route'.kind = "notify" /\ route'.t = t /\ route'.delivered
               /\ notifications' = Append(notifications, Note(route'.target, route'.caller))
               /\ is_user_online(connections, route'.target)
        /\ (route'.kind = "notify" /\ route'.status = 200 /\ notifications' # notifications) =>
             /\ route'.delivered <=> is_user_online(connections, route'.target)
             /\ route'.delivered <=> StartsSending(route'.t, "notification")
        /\ (route'.kind = "notify" /\ ~route'.delivered) => NoSendIssued]_vars
\* a notification was stored and is being sent, delivered is true, and the
\* target has gone offline since the check
C39_Witness ==
  /\ route.kind = "notify" /\ route.delivered
  /\ notifications[route.nid] = Note(route.target, route.caller)
  /\ tasks[route.t].msg = "notification" /\ Sending(route.t)
  /\ ~is_user_online(connections, route.target)

====
